---- MODULE Spec2Model ----
(***************************************************************************)
(* Model of the conversational-agent backend: the API-key store and the    *)
(* HTTP authentication gates (app/utils/auth.py, app/api/auth.py,          *)
(* app/api/server.py) and the agent's process_message (app/agents/agent.py)*)
(*                                                                         *)
(* Text values are sequences of lexemes (tokens), so that prefix tests,    *)
(* splitting, stripping and substring tests are computed as the code       *)
(* computes them.                                                          *)
(***************************************************************************)
EXTENDS Integers, Sequences, FiniteSets, TLC

VARIABLES
    now,            \* the wall clock, in seconds (time.time() / datetime.utcnow())
    ticks,          \* how many times the clock has advanced
    environment,    \* settings.environment
    debug_mode,     \* settings.debug_mode
    api_key_prefix, \* settings.security.api_key_prefix
    API_KEYS,       \* app.utils.auth.API_KEYS: key hash -> key record
    nCalls,         \* history: per hash, validate_key calls since registration made while unexpired and in scope
    last,           \* the last operation performed and what it returned
    memory,         \* Agent.memory: the messages of the conversation buffer
    handler,        \* Agent.finish_reason_callback_handler: finish_reason, last_response
    last_intermediate_steps,  \* Agent.last_intermediate_steps (an attribute that may not exist yet)
    pm,             \* the process_message call in progress: its position and local variables
    AGENT_INSTANCES,  \* app.agents.agent.AGENT_INSTANCES: session id -> the cached Agent
    SESSION_CONFIGS,  \* app.agents.agent.SESSION_CONFIGS: session id -> configuration dict
    SESSION_META,     \* app.agents.agent.SESSION_META: session id -> created_at, updated_at
    nAgents,          \* history: how many Agent objects have been constructed
    sessions,         \* SessionManager._sessions: session id -> Session
    last_cleanup,     \* SessionManager._last_cleanup
    media_registry,   \* app.tools.media.core.media_registry: media id -> MediaMetadata
    media_cache,      \* the files of MEDIA_CACHE_DIR: file name -> size in bytes
    nMedia,           \* history: how many media ids uuid4 has produced
    TOOLS_REGISTRY,   \* app.tools.registry._TOOLS_REGISTRY: tool name -> tool
    SCHEMA_REGISTRY,  \* app.tools.registry._SCHEMA_REGISTRY: tool name -> argument schema
    tool_modules,     \* the tool modules in sys.modules (imported so far)
    http_wrappers,    \* how many logging wrappers are installed on httpx.HTTPTransport.handle_request
    validations       \* the validate_key calls of the worker threads: thread -> position and locals

authVars == <<now, ticks, environment, debug_mode, api_key_prefix, API_KEYS, nCalls, last>>

agentVars == <<memory, handler, last_intermediate_steps, pm>>

factoryVars == <<AGENT_INSTANCES, SESSION_CONFIGS, SESSION_META, nAgents>>

managerVars == <<sessions, last_cleanup>>

mediaVars == <<media_registry, media_cache, nMedia>>

toolVars == <<TOOLS_REGISTRY, SCHEMA_REGISTRY, tool_modules>>

serviceVars == <<factoryVars, managerVars, mediaVars, toolVars, http_wrappers, validations>>

vars == <<authVars, agentVars, serviceVars>>

----------------------------------------------------------------------------
(* Bounds of the model *)

MaxTicks == 2

MaxRateLimit == 2

(* Program constants *)

DaySeconds == 86400

----------------------------------------------------------------------------
(* Text helpers *)

StartsWith(s, p) == Len(s) >= Len(p) /\ SubSeq(s, 1, Len(p)) = p

\* str.split('.')[0]: the lexemes before the first "."
RECURSIVE BeforeFirstDot(_)
BeforeFirstDot(s) ==
    IF s = <<>> \/ Head(s) = "." THEN <<>>
    ELSE <<Head(s)>> \o BeforeFirstDot(Tail(s))

\* str.lower() on the environment names that can be configured
Lower(e) == IF e = "Development" THEN "development" ELSE e

----------------------------------------------------------------------------
(* Settings *)

admin_api_key == <<"admin-key-for-development">>

Environments == {"development", "Development", "production"}

Prefixes == {<<"sk-">>, <<>>}

----------------------------------------------------------------------------
(* API keys *)

UUIDs == {"uuid1"}

Secrets == {"secret1"}

\* APIKeyManager.generate_key: (key_id, "{key_id}.{secret}")
generate_key(u, s) == <<<<u>>, <<u, ".", s>>>>

GeneratedKeys == {generate_key(u, s)[2] : u \in UUIDs, s \in Secrets}

PrefixedKey == <<"sk-", "uuid2", ".", "secret2">>

EmptyKey == <<>>

\* the key strings callers register and present
KeyStrings == GeneratedKeys \cup {PrefixedKey, admin_api_key}

\* APIKeyManager.hash_key: SHA-256 hex digest, taken as collision free
hash_key(k) == <<"sha256">> \o k

ScopeNames == {"chat", "admin"}

ScopeSets == {{"chat"}, {"admin"}, {"chat", "admin"}}

ExpiryDays == {-1, 1, 2}

RateLimits == 0..MaxRateLimit

EmptyDict == [empty |-> TRUE]

None == "None"

\* the record register_key builds (lines 52-60)
key_data_new(k, scopes, expires_in_days, rate_limit, t) ==
    [ key_id        |-> BeforeFirstDot(k),
      scopes        |-> scopes,
      created_at    |-> t,
      expires_at    |-> t + expires_in_days * DaySeconds,
      rate_limit    |-> rate_limit,
      request_count |-> 0,
      last_reset    |-> t ]

\* the synthetic record of the development admin bypass (lines 81-89)
admin_key_data(t) ==
    [ key_id        |-> <<"admin">>,
      scopes        |-> {"chat", "sessions", "admin"},
      created_at    |-> t,
      expires_at    |-> t + 365 * DaySeconds,
      rate_limit    |-> 1000,
      request_count |-> 0,
      last_reset    |-> t ]

Put(store, h, rec) ==
    [x \in DOMAIN store \cup {h} |-> IF x = h THEN rec ELSE store[x]]

Remove(store, h) == [x \in DOMAIN store \ {h} |-> store[x]]

ScopeError(scope) ==
    IF scope = "chat" THEN "API key does not have chat permission"
    ELSE "API key does not have admin permission"

\* line 78: the development admin bypass of validate_key
AdminBypass(env, k) == Lower(env) = "development" /\ k = admin_api_key

\* line 102: expires_at < utcnow()
IsExpiredNever(rec, t) == FALSE

IsExpired(rec, t) == rec.expires_at < t

\* a reset that is already due when exactly a day has passed
ResetDueAfterADay(rec, t) == t - rec.last_reset >= DaySeconds

\* line 120: more than a day since the last reset
ResetDue(rec, t) == t - rec.last_reset > DaySeconds

\* lines 120-122
AfterReset(rec, t) ==
    IF ResetDue(rec, t)
    THEN [rec EXCEPT !.request_count = 0, !.last_reset = t]
    ELSE rec

\* line 125
RateLimitExceededStrict(rec) == rec.request_count > rec.rate_limit

RateLimitExceeded(rec) == rec.request_count >= rec.rate_limit

\* a count that charges two requests for one
CountRequestTwice(rec) == [rec EXCEPT !.request_count = @ + 2]

\* line 130: request_count += 1
CountRequest(rec) == [rec EXCEPT !.request_count = @ + 1]

\* the call is made on a stored key that is unexpired and holds the requested scope
Qualifies(store, t, k, scope) ==
    /\ hash_key(k) \in DOMAIN store
    /\ store[hash_key(k)].expires_at >= t
    /\ scope \in store[hash_key(k)].scopes

\* APIKeyManager.validate_key: the returned 3-tuple and the store afterwards
validate_key(store, env, t, k, scope) ==
    IF k = EmptyKey
    THEN [ret |-> <<FALSE, "No API key provided", EmptyDict>>, store |-> store]
    ELSE IF AdminBypass(env, k)
    THEN [ret |-> <<TRUE, None, admin_key_data(t)>>, store |-> store]
    ELSE IF hash_key(k) \notin DOMAIN store
    THEN [ret |-> <<FALSE, "Invalid API key", EmptyDict>>, store |-> store]
    ELSE LET h  == hash_key(k)
             kd == store[h]
         IN  IF IsExpired(kd, t)
             THEN [ret |-> <<FALSE, "API key expired", kd>>, store |-> store]
             ELSE IF scope \notin kd.scopes
             THEN [ret |-> <<FALSE, ScopeError(scope), kd>>, store |-> store]
             ELSE LET r == AfterReset(kd, t)
                  IN  IF RateLimitExceeded(r)
                      THEN [ret |-> <<FALSE, "Rate limit exceeded", r>>,
                            store |-> Put(store, h, r)]
                      ELSE LET u == CountRequest(r)
                           IN  [ret |-> <<TRUE, None, u>>, store |-> Put(store, h, u)]

----------------------------------------------------------------------------
(* The agent after construction *)

\* a Python value: its type and its content, text being a sequence of lexemes
Str(s) == [t |-> "str", s |-> s]

NoneValue == [t |-> "none", s |-> <<>>]

\* FinishReasonCallbackHandler.__init__
HandlerInit == [finish_reason |-> None, last_response |-> None]

\* the attribute Agent.last_intermediate_steps does not exist until process_message assigns it
NoAttribute == [has |-> FALSE, steps |-> <<>>]

Attribute(steps) == [has |-> TRUE, steps |-> steps]

NoResult == [set |-> FALSE, output |-> NoneValue, steps |-> <<>>]

NotReturned == [kind |-> "none", value |-> NoneValue]

\* no process_message call has been made
NoCall ==
    [pc |-> "idle", message |-> "", chat_history_messages |-> <<>>,
     accumulated_scratchpad_str |-> <<>>, attempts |-> 0, result |-> NoResult,
     current_output |-> NoneValue, continuation_attempts |-> 0, finish_reason |-> None,
     calls |-> <<>>, ret |-> NotReturned]

\* Agent.__init__: an empty conversation buffer, a fresh callback handler
\* the module-level maps of app/agents/agent.py, the session manager and the
\* media registry, as they are when the process starts
\* the worker threads of the server's thread pool that run the auth dependency
Workers == {"w1", "w2", "w3"}

\* a worker that is not in validate_key
NotCalling == [pc |-> "idle", key |-> <<>>, loaded |-> 0, ret |-> "none", error |-> "None"]

ServicesStarted ==
    /\ AGENT_INSTANCES = <<>>
    /\ SESSION_CONFIGS = <<>>
    /\ SESSION_META = <<>>
    /\ nAgents = 0
    /\ sessions = <<>>
    /\ last_cleanup = now
    /\ media_registry = <<>>
    /\ media_cache = <<>>
    /\ nMedia = 0
    /\ TOOLS_REGISTRY = <<>>
    /\ SCHEMA_REGISTRY = <<>>
    /\ tool_modules = {}
    /\ http_wrappers = 0
    /\ validations = [w \in Workers |-> NotCalling]

AgentConstructed ==
    /\ memory = <<>>
    /\ handler = HandlerInit
    /\ last_intermediate_steps = NoAttribute
    /\ pm = NoCall

----------------------------------------------------------------------------
(* Operations of the key manager *)

Min(a, b) == IF a < b THEN a ELSE b

CallCap == MaxRateLimit + 2

\* the key manager alone: debug_mode and api_key_prefix (not read by it) keep their defaults
InitAuth ==
    /\ now = 0
    /\ ticks = 0
    /\ environment \in Environments
    /\ debug_mode = TRUE
    /\ api_key_prefix = <<"sk-">>
    /\ API_KEYS = [h \in {} |-> EmptyDict]
    /\ nCalls = [h \in {} |-> 0]
    /\ last = [op |-> "init"]
    /\ AgentConstructed
    /\ ServicesStarted

\* time passes
Tick(d) ==
    /\ ticks < MaxTicks
    /\ now' = now + d
    /\ ticks' = ticks + 1
    /\ last' = [op |-> "tick"]
    /\ UNCHANGED <<environment, debug_mode, api_key_prefix, API_KEYS, nCalls>>
    /\ UNCHANGED <<agentVars, serviceVars>>

\* the store is empty, or holds the key that is registered again
OneKeyAtATime(k) == DOMAIN API_KEYS \subseteq {hash_key(k)}

\* APIKeyManager.register_key
RegisterKey(k, scopes, expires_in_days, rate_limit) ==
    LET kd == key_data_new(k, scopes, expires_in_days, rate_limit, now)
    IN  /\ API_KEYS' = Put(API_KEYS, hash_key(k), kd)
        /\ nCalls' = Put(nCalls, hash_key(k), 0)
        /\ last' = [op |-> "register_key", key |-> k, ret |-> kd]
        /\ UNCHANGED <<now, ticks, environment, debug_mode, api_key_prefix>>
        /\ UNCHANGED <<agentVars, serviceVars>>

\* APIKeyManager.validate_key
ValidateKey(k, scope) ==
    LET v == validate_key(API_KEYS, environment, now, k, scope)
        h == hash_key(k)
        reached == Qualifies(API_KEYS, now, k, scope)
    IN  /\ API_KEYS' = v.store
        /\ nCalls' = IF reached THEN [nCalls EXCEPT ![h] = Min(@ + 1, CallCap)] ELSE nCalls
        /\ last' = [ op      |-> "validate_key",
                     key     |-> k,
                     scope   |-> scope,
                     ret     |-> v.ret,
                     bypass  |-> AdminBypass(environment, k),
                     pre     |-> IF h \in DOMAIN API_KEYS THEN API_KEYS[h] ELSE EmptyDict,
                     qualifies |-> reached ]
        /\ UNCHANGED <<now, ticks, environment, debug_mode, api_key_prefix>>
        /\ UNCHANGED <<agentVars, serviceVars>>

\* a revocation that answers but keeps the record
revoke_key_keeping(store, k) ==
    [ret |-> hash_key(k) \in DOMAIN store, store |-> store]

\* APIKeyManager.revoke_key: the returned flag and the store afterwards
revoke_key(store, k) ==
    [ret |-> hash_key(k) \in DOMAIN store, store |-> Remove(store, hash_key(k))]

\* APIKeyManager.revoke_key
RevokeKey(k) ==
    LET h == hash_key(k)
        r == revoke_key(API_KEYS, k)
    IN  /\ API_KEYS' = r.store
        /\ nCalls' = Remove(nCalls, h)
        /\ last' = [op |-> "revoke_key", key |-> k, ret |-> r.ret]
        /\ UNCHANGED <<now, ticks, environment, debug_mode, api_key_prefix>>
        /\ UNCHANGED <<agentVars, serviceVars>>

AuthKeys == GeneratedKeys \cup {admin_api_key}

NextAuth ==
    \/ \E d \in {1, DaySeconds} : Tick(d)
    \/ \E k \in AuthKeys, sc \in ScopeSets, d \in ExpiryDays, rl \in RateLimits :
          OneKeyAtATime(k) /\ RegisterKey(k, sc, d, rl)
    \/ \E k \in AuthKeys \cup {EmptyKey}, scope \in ScopeNames : ValidateKey(k, scope)
    \/ \E k \in AuthKeys : RevokeKey(k)

SpecAuth == InitAuth /\ [][NextAuth]_vars

----------------------------------------------------------------------------
(* Claims about the key manager *)

StoredNow(k) == API_KEYS[hash_key(k)]

\* the case of C1: a validate_key call on a stored, unexpired key holding the
\* requested scope, registered with rate_limit >= 1 at most a day ago
C1_Case ==
    /\ last.op = "validate_key"
    /\ last.qualifies
    /\ last.pre.rate_limit >= 1
    /\ now - last.pre.created_at <= DaySeconds

\* what C1 says of the i-th such call since registration
C1_Outcome ==
    LET N == last.pre.rate_limit
        i == nCalls[hash_key(last.key)]
    IN  /\ i <= N =>
              /\ last.ret[1] = TRUE
              /\ StoredNow(last.key).request_count = i
        /\ i = N + 1 =>
              /\ last.ret[1] = FALSE
              /\ last.ret[2] = "Rate limit exceeded"
              /\ StoredNow(last.key).request_count = N

C2_Case ==
    /\ last.op = "validate_key"
    /\ last.pre # EmptyDict
    /\ last.pre.expires_at < now

C2_Outcome ==
    /\ last.ret = <<FALSE, "API key expired", last.pre>>
    /\ StoredNow(last.key) = last.pre

----------------------------------------------------------------------------
(* The HTTP authentication gates and POST /auth/keys *)

NoCredentials == <<"<no Authorization header>">>

\* Python tuple unpacking "a, b = t": possible only for a tuple of two values
UnpacksIntoTwo(t) == Len(t) = 2

\* truthiness of the first unpacked value ("if not key_id")
Truthy(v) == v \notin {FALSE, None, <<>>}

DevDebug(env, dbg) == env = "development" /\ dbg

Raise(status, store) ==
    [kind |-> "HTTPException", status |-> status, store |-> store, valid |-> "not called"]

\* get_api_key (app/api/auth.py lines 15-57)
get_api_key(store, env, dbg, prefix, t, cred) ==
    IF DevDebug(env, dbg)
    THEN [kind |-> "return", value |-> <<"dev-key", [scopes |-> {"chat", "sessions"}]>>,
          store |-> store, valid |-> "not called"]
    ELSE IF cred = NoCredentials THEN Raise(401, store)
    ELSE IF ~StartsWith(cred, prefix) THEN Raise(401, store)
    ELSE LET v == validate_key(store, env, t, cred, "chat")
         IN  IF ~UnpacksIntoTwo(v.ret)
             THEN [kind |-> "ValueError", store |-> v.store, valid |-> v.ret[1]]
             ELSE IF ~Truthy(v.ret[1])
             THEN [kind |-> "HTTPException", status |-> 401, store |-> v.store,
                   valid |-> v.ret[1]]
             ELSE [kind |-> "return", value |-> <<v.ret[1], v.ret[2]>>,
                   store |-> v.store, valid |-> v.ret[1]]

DictGetScopes(d) == IF d = EmptyDict THEN {} ELSE d.scopes

\* verify_admin_key (app/api/auth.py lines 59-99)
verify_admin_key(store, env, dbg, t, cred) ==
    IF DevDebug(env, dbg)
    THEN [kind |-> "return", value |-> TRUE, store |-> store, valid |-> "not called"]
    ELSE IF cred = NoCredentials THEN Raise(401, store)
    ELSE IF env = "development" /\ cred = admin_api_key
    THEN [kind |-> "return", value |-> TRUE, store |-> store, valid |-> "not called"]
    ELSE LET v == validate_key(store, env, t, cred, "chat")
         IN  IF ~UnpacksIntoTwo(v.ret)
             THEN [kind |-> "ValueError", store |-> v.store, valid |-> v.ret[1]]
             ELSE IF ~Truthy(v.ret[1]) \/ "admin" \notin DictGetScopes(v.ret[2])
             THEN [kind |-> "HTTPException", status |-> 403, store |-> v.store,
                   valid |-> v.ret[1]]
             ELSE [kind |-> "return", value |-> TRUE, store |-> v.store,
                   valid |-> v.ret[1]]

\* the methods class APIKeyManager defines (app/utils/auth.py lines 18-155)
APIKeyManagerMethods ==
    {"generate_key", "hash_key", "register_key", "validate_key", "revoke_key"}

\* the handler of POST /auth/keys (app/api/server.py lines 283-311): it calls
\* key_manager.create_key, and any fault becomes a 500 response
create_api_key(store, request) ==
    IF "create_key" \notin APIKeyManagerMethods
    THEN [status |-> 500, store |-> store]
    ELSE [status |-> 200, store |-> store]

StoredOrEmpty(store, k) ==
    IF hash_key(k) \in DOMAIN store THEN store[hash_key(k)] ELSE EmptyDict

GateFrame ==
    /\ UNCHANGED <<now, ticks, environment, debug_mode, api_key_prefix, nCalls>>
    /\ UNCHANGED <<agentVars, serviceVars>>

\* a request through the get_api_key dependency
GetApiKey(cred) ==
    LET g == get_api_key(API_KEYS, environment, debug_mode, api_key_prefix, now, cred)
    IN  /\ API_KEYS' = g.store
        /\ last' = [ op |-> "get_api_key", cred |-> cred, kind |-> g.kind,
                     status |-> IF g.kind = "HTTPException" THEN g.status
                                ELSE IF g.kind = "ValueError" THEN 500 ELSE 200,
                     valid |-> g.valid,
                     pre |-> StoredOrEmpty(API_KEYS, cred) ]
        /\ GateFrame

\* a request through the verify_admin_key dependency
VerifyAdminKey(cred) ==
    LET g == verify_admin_key(API_KEYS, environment, debug_mode, now, cred)
    IN  /\ API_KEYS' = g.store
        /\ last' = [ op |-> "verify_admin_key", cred |-> cred, kind |-> g.kind,
                     status |-> IF g.kind = "HTTPException" THEN g.status
                                ELSE IF g.kind = "ValueError" THEN 500 ELSE 200,
                     valid |-> g.valid,
                     pre |-> StoredOrEmpty(API_KEYS, cred) ]
        /\ GateFrame

\* POST /auth/keys: the admin gate, then the handler
CreateApiKey(cred, scopes, expires_in_days, rate_limit) ==
    LET g == verify_admin_key(API_KEYS, environment, debug_mode, now, cred)
        request == [scopes |-> scopes, expires_in_days |-> expires_in_days,
                    rate_limit |-> rate_limit]
        h == create_api_key(g.store, request)
    IN  /\ API_KEYS' = IF g.kind = "return" THEN h.store ELSE g.store
        /\ last' = [ op |-> "create_api_key", cred |-> cred, gate |-> g.kind,
                     request |-> request,
                     status |-> IF g.kind = "return" THEN h.status
                                ELSE IF g.kind = "HTTPException" THEN g.status ELSE 500 ]
        /\ GateFrame

InitGate ==
    /\ now = 0
    /\ ticks = 0
    /\ environment \in Environments
    /\ debug_mode \in BOOLEAN
    /\ api_key_prefix \in Prefixes
    /\ API_KEYS = [h \in {} |-> EmptyDict]
    /\ nCalls = [h \in {} |-> 0]
    /\ last = [op |-> "init"]
    /\ AgentConstructed
    /\ ServicesStarted

Credentials == KeyStrings \cup {NoCredentials}

NextGate ==
    \/ \E k \in KeyStrings, sc \in ScopeSets, d \in {-1, 2}, rl \in {0, 1} :
          OneKeyAtATime(k) /\ RegisterKey(k, sc, d, rl)
    \/ \E c \in Credentials : GetApiKey(c)
    \/ \E c \in Credentials : VerifyAdminKey(c)
    \/ \E c \in Credentials, sc \in {{"chat"}, {"admin"}}, rl \in {1} :
          CreateApiKey(c, sc, 2, rl)

SpecGate == InitGate /\ [][NextGate]_vars

----------------------------------------------------------------------------
(* Claims about the gates *)

\* a stored record that validate_key would accept for "chat": unexpired, in
\* scope and under quota
Usable(rec) ==
    /\ rec # EmptyDict
    /\ rec.expires_at >= now
    /\ "chat" \in rec.scopes
    /\ rec.request_count < rec.rate_limit

\* C3: outside development+debug mode get_api_key returns an identity only
\* for a present, correctly prefixed credential that validate_key accepts, and
\* in every other case raises 401 and no other kind of fault.
C3_GateReturnsOr401 ==
    (last.op = "get_api_key" /\ ~DevDebug(environment, debug_mode)) =>
        /\ last.kind = "return" =>
              /\ last.cred # NoCredentials
              /\ StartsWith(last.cred, api_key_prefix)
              /\ last.valid = TRUE
        /\ last.kind # "return" =>
              /\ last.kind = "HTTPException"
              /\ last.status = 401

\* C4: a key made by generate_key and stored by register_key with the chat
\* scope, unexpired and under quota, is accepted by get_api_key outside
\* development+debug mode.
C4_IssuedKeyAccepted ==
    ( /\ last.op = "get_api_key"
      /\ ~DevDebug(environment, debug_mode)
      /\ last.cred \in GeneratedKeys
      /\ Usable(last.pre) ) => last.kind = "return"

\* C5: outside development+debug mode verify_admin_key grants access to every
\* credential validate_key accepts whose scopes contain "admin", raises 403 for
\* every credential that fails validation or lacks the admin scope, and 401
\* when there is no credential.
C5_AdminGate ==
    (last.op = "verify_admin_key" /\ ~DevDebug(environment, debug_mode)) =>
        IF last.cred = NoCredentials
        THEN last.kind = "HTTPException" /\ last.status = 401
        ELSE IF last.kind = "return"
        THEN TRUE
        ELSE IF last.valid = TRUE /\ "admin" \in DictGetScopes(last.pre)
        THEN FALSE
        ELSE last.kind = "HTTPException" /\ last.status = 403

\* C6: once the admin gate has passed, POST /auth/keys answers 200 and the new
\* key's record is in the store under the key's hash, with the requested
\* scopes and rate limit.
C6_CreateKeyRegisters ==
    (last.op = "create_api_key" /\ last.gate = "return") =>
        /\ last.status = 200
        /\ \E h \in DOMAIN API_KEYS :
              /\ API_KEYS[h].scopes = last.request.scopes
              /\ API_KEYS[h].rate_limit = last.request.rate_limit

----------------------------------------------------------------------------
(* Text of the agent: lexemes, stripping, substring tests, JSON objects *)

Whitespace == {" ", "\n"}

\* str.lstrip()
RECURSIVE lstrip(_)
lstrip(s) == IF s # <<>> /\ Head(s) \in Whitespace THEN lstrip(Tail(s)) ELSE s

\* str.rstrip()
RECURSIVE rstrip(_)
rstrip(s) ==
    IF s # <<>> /\ s[Len(s)] \in Whitespace THEN rstrip(SubSeq(s, 1, Len(s) - 1)) ELSE s

\* str.strip()
strip(s) == lstrip(rstrip(s))

\* the lexemes of the texts the model and the tools produce
ActionFinalAnswer == "\"action\": \"Final Answer\","

ActionTool == "\"action\": \"calculer_date\","

ActionInputX == "\"action_input\": \"X\""

ActionInputList == "\"action_input\": [\"X\"]"

NoteFinalAnswer == "\"note\": \"Final Answer\","

IterationLimitMessage == "Agent stopped due to iteration limit or time limit."

NoAnswerText == "Je n'ai pas de réponse à cette question."

ErrorText == "Une erreur s'est produite: "

\* the searched phrases that occur inside a lexeme
PhrasesIn(tok) ==
    {tok}
    \cup (IF tok \in {ActionFinalAnswer, NoteFinalAnswer} THEN {"Final Answer"} ELSE {})
    \cup (IF tok = ActionTool THEN {"calculer_date"} ELSE {})
    \cup (IF tok = IterationLimitMessage THEN {"Agent stopped due to iteration limit"} ELSE {})

\* phrase in text
Contains(s, phrase) == \E i \in 1..Len(s) : phrase \in PhrasesIn(s[i])

\* text.strip().startswith("{") and text.strip().endswith("}")
LooksLikeJsonObject(s) ==
    LET b == strip(s) IN b # <<>> /\ Head(b) = "{" /\ b[Len(b)] = "}"

JsonMembers == {ActionFinalAnswer, ActionTool, ActionInputX, ActionInputList, NoteFinalAnswer}

\* json.loads(text) succeeds: one object of members, whitespace allowed around and between
JsonDecodes(s) ==
    LET b == strip(s) IN
    /\ LooksLikeJsonObject(s)
    /\ \A i \in 2..(Len(b) - 1) : b[i] \in JsonMembers \cup Whitespace

\* dict.get("action") on the members of an object: the last occurrence of a key wins
RECURSIVE GetAction(_)
GetAction(m) ==
    IF m = <<>> THEN None
    ELSE IF m[Len(m)] = ActionFinalAnswer THEN "Final Answer"
    ELSE IF m[Len(m)] = ActionTool THEN "calculer_date"
    ELSE GetAction(SubSeq(m, 1, Len(m) - 1))

\* dict.get("action_input", default)
RECURSIVE GetActionInput(_, _)
GetActionInput(m, default) ==
    IF m = <<>> THEN default
    ELSE IF m[Len(m)] = ActionInputX THEN Str(<<"X">>)
    ELSE IF m[Len(m)] = ActionInputList THEN [t |-> "list", s |-> <<"X">>]
    ELSE GetActionInput(SubSeq(m, 1, Len(m) - 1), default)

----------------------------------------------------------------------------
(* The pure parts of Agent.process_message *)

max_attempts == 3

max_continuation_attempts == 2

\* FinishReasonCallbackHandler.on_llm_end: the finish reason is taken from the generation
\* info of the last generation, else from llm_output, and kept as it was when neither is there
on_llm_end(h, response) ==
    [finish_reason |->
        IF response.generations
        THEN (IF response.generation_info # "absent" THEN response.generation_info
              ELSE h.finish_reason)
        ELSE (IF response.llm_output # "absent" THEN response.llm_output
              ELSE h.finish_reason),
     last_response |-> "LLMResult"]

\* a memory that is not cleared
KeepMemory(transcript) == transcript

\* self.memory.clear()
memory_clear(transcript) == <<>>

\* an executor without memory saves nothing
SaveNothing(transcript) == transcript

\* the executor is built with memory=self.memory: an invoke that returns saves its exchange,
\* the input as a human message and the output as an AI message
save_context(transcript) == transcript \o <<"human", "ai">>

\* a clearing that forgets the finish reason but keeps the raw response
ClearFinishReasonOnly(h) == [finish_reason |-> None, last_response |-> h.last_response]

\* FinishReasonCallbackHandler.clear_finish_reason
clear_finish_reason(h) == [finish_reason |-> None, last_response |-> None]

\* an intermediate step is a pair (action, observation); str(action) shows the tool,
\* the tool input and the log
StrAction(step) == <<step.tool>> \o step.tool_input \o step.log

\* "\n".join(parts)
RECURSIVE JoinLines(_)
JoinLines(parts) ==
    IF parts = <<>> THEN <<>>
    ELSE IF Len(parts) = 1 THEN parts[1]
    ELSE parts[1] \o <<"\n">> \o JoinLines(Tail(parts))

RECURSIVE ScratchpadParts(_)
ScratchpadParts(steps) ==
    IF steps = <<>> THEN <<>>
    ELSE << strip(Head(steps).log), <<"Observation: ">> \o strip(Head(steps).observation) >>
         \o ScratchpadParts(Tail(steps))

\* Agent._format_scratchpad_for_llm
format_scratchpad_for_llm(steps) ==
    LET parts == ScratchpadParts(steps) IN
    JoinLines(IF parts # <<>> THEN Append(parts, <<"Thought:">>) ELSE parts)

\* a scratchpad that keeps only the steps of the latest attempt
ResetScratchpad(accumulated_scratchpad_str, steps) ==
    IF steps # <<>> THEN format_scratchpad_for_llm(steps) ELSE accumulated_scratchpad_str

\* "if current_intermediate_steps: accumulated_scratchpad_str += new_scratchpad_segment"
ExtendScratchpad(accumulated_scratchpad_str, steps) ==
    IF steps # <<>>
    THEN accumulated_scratchpad_str \o format_scratchpad_for_llm(steps)
    ELSE accumulated_scratchpad_str

\* the recogniser replaced by "any text is final"
IsFinalAnswerAlways(output) == output.t = "str"

\* the test of the retry loop: is the output of an attempt a final answer?
is_final_answer(output) ==
    IF output.t = "str"
    THEN IF LooksLikeJsonObject(output.s)
         THEN IF JsonDecodes(output.s)
              THEN GetAction(strip(output.s)) = "Final Answer"
              ELSE Contains(output.s, "Final Answer")
         ELSE Contains(output.s, "Final Answer")
    ELSE IF output.t = "dict"
    THEN GetAction(output.s) = "Final Answer"
    ELSE FALSE

\* bool(value)
IsTrue(v) == v.t \notin {"none"} /\ (v.t \in {"str", "list", "dict"} => v.s # <<>>)

\* the segments joined in the opposite order
JoinSegmentsReversed(current_output, new_output_segment) ==
    Str(rstrip(new_output_segment.s) \o <<"\n">> \o lstrip(current_output.s))

\* f"{current_output.rstrip()}\n{new_output_segment.lstrip()}"
JoinSegments(current_output, new_output_segment) ==
    Str(rstrip(current_output.s) \o <<"\n">> \o lstrip(new_output_segment.s))

\* lines 539-541: a non-empty segment is appended; rstrip / lstrip exist on text only
AppendSegment(current_output, new_output_segment) ==
    IF ~IsTrue(new_output_segment)
    THEN [raised |-> FALSE, value |-> current_output]
    ELSE IF current_output.t # "str" \/ new_output_segment.t # "str"
    THEN [raised |-> TRUE, value |-> current_output]
    ELSE [raised |-> FALSE, value |-> JoinSegments(current_output, new_output_segment)]

\* post-processing that extracts nothing
ExtractNothing(response) == response

\* lines 577-589: the action_input of a final-answer object replaces the response;
\* a text that does not decode is kept as it is
ExtractResponse(response) ==
    IF response.t = "str" /\ LooksLikeJsonObject(response.s)
    THEN IF JsonDecodes(response.s) /\ GetAction(strip(response.s)) = "Final Answer"
         THEN GetActionInput(strip(response.s), Str(<<NoAnswerText>>))
         ELSE response
    ELSE IF response.t = "dict" /\ GetAction(response.s) = "Final Answer"
    THEN GetActionInput(response.s, Str(<<NoAnswerText>>))
    ELSE response

\* phrase in response: substring of a text, element of a list, key of a dict
InSupported(v) == v.t \in {"str", "list", "dict"}

In(phrase, v) ==
    IF v.t = "str" THEN Contains(v.s, phrase)
    ELSE IF v.t = "list" THEN \E i \in 1..Len(v.s) : v.s[i] = phrase
    ELSE FALSE

MaxOf(S) == CHOOSE x \in S : \A y \in S : y <= x

MinOf(S) == CHOOSE x \in S : \A y \in S : x <= y

\* the recovery that accepts every observation of a calculer_date action
UsefulWithoutWeekday(step) ==
    /\ Contains(StrAction(step), "calculer_date")
    /\ Contains(step.observation, "prochain lundi")

\* lines 598-600 and 610: the step whose observation may replace the response
Useful(step) ==
    /\ Contains(StrAction(step), "calculer_date")
    /\ Contains(StrAction(step), "weekday")
    /\ Contains(step.observation, "prochain lundi")

\* lines 593-613: a response carrying the iteration-limit message is replaced by the most
\* recent useful observation and, if that still carries the message, by the oldest one
IterationLimitRecovery(response, lis) ==
    LET steps == lis.steps
        idx == {i \in 1..Len(steps) : Useful(steps[i])}
        recent == IF idx # {} THEN Str(steps[MaxOf(idx)].observation) ELSE response
    IN  IF ~(lis.has /\ steps # <<>>) THEN response
        ELSE IF In("Agent stopped due to iteration limit", recent) /\ idx # {}
        THEN Str(steps[MinOf(idx)].observation)
        ELSE recent

Returned(v) == [kind |-> "return", value |-> v]

Raised(e) == [kind |-> "raise", value |-> Str(<<e>>)]

\* lines 618-622: the error boundary returns a text that describes the fault
ErrorBoundary(e) == Returned(Str(<<ErrorText, e>>))

\* lines 575-616: from the accumulated output to the value process_message returns
Respond(current_output, lis) ==
    LET extracted == ExtractResponse(current_output) IN
    IF ~InSupported(extracted) THEN ErrorBoundary("TypeError")
    ELSE LET response ==
                 IF In("Agent stopped due to iteration limit", extracted)
                 THEN IterationLimitRecovery(extracted, lis)
                 ELSE extracted
         IN  IF response.t \in {"str", "list"} THEN Returned(response)
             ELSE ErrorBoundary("TypeError")

----------------------------------------------------------------------------
(* Agent.process_message, step by step.  agent.invoke is the AgentExecutor of   *)
(* the LangChain library: what it returns (output, intermediate steps), whether *)
(* it raises, and the LLM result its last model call hands to the callback      *)
(* handler are inputs of the steps.  With its memory attached, a successful     *)
(* invoke saves the exchange (a human and an AI message) to the memory.         *)

CallRecord(phase, raised, output, h, captured, steps) ==
    [phase |-> phase, raised |-> raised, output |-> output, finish_reason |-> h.finish_reason,
     captured |-> captured, steps |-> steps]

\* the termination code on_llm_end finds in the result of the last model call of an invoke:
\* "absent" when the result carries none, "no call" when invoke raised before any model call
CapturedCode(called, response) ==
    IF ~called THEN "no call"
    ELSE IF response.generations THEN response.generation_info
    ELSE response.llm_output

\* a continuation loop without its cap
ContinueWhileLength(finish_reason, continuation_attempts) == finish_reason = "length"

\* while finish_reason == "length" and continuation_attempts < max_continuation_attempts
ContinueLoop(finish_reason, continuation_attempts) ==
    finish_reason = "length" /\ continuation_attempts < max_continuation_attempts

AuthFrame == UNCHANGED <<authVars, serviceVars>>

\* lines 377-399: memory.clear() runs before the try block; the rest runs inside it
PM_Start(message, fault) ==
    /\ pm.pc = "idle"
    /\ IF fault = "memory.clear"
       THEN /\ pm' = [NoCall EXCEPT !.message = message, !.ret = Raised(fault)]
            /\ UNCHANGED <<memory, handler>>
       ELSE /\ memory' = memory_clear(memory)
            /\ handler' = clear_finish_reason(handler)
            /\ pm' = IF fault = "load_memory_variables"
                     THEN [NoCall EXCEPT !.message = message, !.ret = ErrorBoundary(fault)]
                     ELSE [NoCall EXCEPT !.pc = "retry", !.message = message,
                                         !.chat_history_messages = memory']
    /\ UNCHANGED last_intermediate_steps
    /\ AuthFrame

\* lines 401-451: one iteration of the retry loop whose invoke returns
PM_Attempt(output, steps, response) ==
    /\ pm.pc = "retry"
    /\ handler' = on_llm_end(handler, response)
    /\ memory' = save_context(memory)
    /\ pm' = [pm EXCEPT
                !.attempts = @ + 1,
                !.result = [set |-> TRUE, output |-> output, steps |-> steps],
                !.accumulated_scratchpad_str = ExtendScratchpad(@, steps),
                !.calls = Append(@, CallRecord("attempt", FALSE, output, handler',
                                                 CapturedCode(TRUE, response), steps)),
                !.pc = IF is_final_answer(output) \/ pm.attempts + 1 = max_attempts
                       THEN "after_retry" ELSE "retry"]
    /\ UNCHANGED last_intermediate_steps
    /\ AuthFrame

\* line 413 raises: the error boundary (lines 618-622) answers
PM_AttemptRaises(called, response) ==
    /\ pm.pc = "retry"
    /\ handler' = IF called THEN on_llm_end(handler, response) ELSE handler
    /\ pm' = [pm EXCEPT
                !.attempts = @ + 1,
                !.calls = Append(@, CallRecord("attempt", TRUE, NoneValue, handler',
                                                 CapturedCode(called, response), <<>>)),
                !.pc = "idle",
                !.ret = ErrorBoundary("invoke")]
    /\ UNCHANGED <<memory, last_intermediate_steps>>
    /\ AuthFrame

\* lines 453-516: the steps of the final result are stored, the finish reason is read
PM_AfterRetry ==
    /\ pm.pc = "after_retry"
    /\ last_intermediate_steps' = Attribute(pm.result.steps)
    /\ pm' = [pm EXCEPT
                !.current_output = pm.result.output,
                !.finish_reason = handler.finish_reason,
                !.pc = IF ContinueLoop(handler.finish_reason, 0)
                       THEN "continue" ELSE "finish"]
    /\ UNCHANGED <<memory, handler>>
    /\ AuthFrame

\* lines 516-558: one iteration of the continuation loop whose invoke returns
PM_Continue(output, steps, response) ==
    /\ pm.pc = "continue"
    /\ handler' = on_llm_end(clear_finish_reason(handler), response)
    /\ memory' = save_context(memory)
    /\ LET seg == AppendSegment(pm.current_output, output)
           n == pm.continuation_attempts + 1
       IN  IF seg.raised
           THEN /\ pm' = [pm EXCEPT
                            !.continuation_attempts = n,
                            !.calls = Append(@, CallRecord("continuation", FALSE, output,
                                                             handler', CapturedCode(TRUE, response), steps)),
                            !.pc = "finish"]
                /\ UNCHANGED last_intermediate_steps
           ELSE /\ pm' = [pm EXCEPT
                            !.continuation_attempts = n,
                            !.current_output = seg.value,
                            !.result = [set |-> TRUE, output |-> output, steps |-> steps],
                            !.accumulated_scratchpad_str = ExtendScratchpad(@, steps),
                            !.finish_reason = handler'.finish_reason,
                            !.calls = Append(@, CallRecord("continuation", FALSE, output,
                                                             handler', CapturedCode(TRUE, response), steps)),
                            !.pc = IF ContinueLoop(handler'.finish_reason, n)
                                   THEN "continue" ELSE "finish"]
                /\ last_intermediate_steps' =
                       IF steps = <<>> THEN last_intermediate_steps
                       ELSE IF last_intermediate_steps.has
                       THEN Attribute(last_intermediate_steps.steps \o steps)
                       ELSE Attribute(steps)
    /\ AuthFrame

\* an exception of the continuation call that reaches the error boundary
LeaveThroughBoundary(p) == [p EXCEPT !.pc = "idle", !.ret = ErrorBoundary("invoke")]

\* lines 560-564: the exception is logged and "break" leaves the loop
LeaveLoop(p) == [p EXCEPT !.pc = "finish"]

\* line 536 raises: lines 560-564 leave the loop with what has been accumulated
PM_ContinueRaises(called, response) ==
    /\ pm.pc = "continue"
    /\ handler' = IF called THEN on_llm_end(clear_finish_reason(handler), response)
                  ELSE clear_finish_reason(handler)
    /\ pm' = LeaveLoop([pm EXCEPT
                !.continuation_attempts = @ + 1,
                !.calls = Append(@, CallRecord("continuation", TRUE, NoneValue, handler',
                                                 CapturedCode(called, response), <<>>))])
    /\ UNCHANGED <<memory, last_intermediate_steps>>
    /\ AuthFrame

\* lines 566-616: post-processing and return
PM_Return ==
    /\ pm.pc = "finish"
    /\ pm' = [pm EXCEPT !.pc = "idle", !.ret = Respond(pm.current_output, last_intermediate_steps)]
    /\ UNCHANGED <<memory, handler, last_intermediate_steps>>
    /\ AuthFrame

----------------------------------------------------------------------------
(* The agent answering messages: what the model and the library can hand back *)

\* LLM results as the callback handler sees them
Generation(info) == [generations |-> TRUE, generation_info |-> info, llm_output |-> "absent"]

LLMResults == {Generation("stop"), Generation("length"), Generation("absent")}

Faults == {"none", "memory.clear", "load_memory_variables"}

Messages == {"Bonjour"}

FinalAnswerObject == Str(<<"{", ActionFinalAnswer, ActionInputX, "}">>)

\* a final-answer object cut after its action, and the rest of it
TruncatedHead == Str(<<"{", ActionFinalAnswer, " ">>)

TruncatedTail == Str(<<" ", ActionInputX, "}">>)

PlainText == Str(<<"a", " ">>)

ListOutput == [t |-> "list", s |-> <<"X">>]

\* the final answer as a structured object
FinalAnswerDict == [t |-> "dict", s |-> <<ActionFinalAnswer, ActionInputX>>]

Outputs ==
    {FinalAnswerObject, FinalAnswerDict, TruncatedHead, TruncatedTail, PlainText, Str(<<>>),
     ListOutput}

InitAgent ==
    /\ now = 0
    /\ ticks = 0
    /\ environment = "development"
    /\ debug_mode = TRUE
    /\ api_key_prefix = <<"sk-">>
    /\ API_KEYS = [h \in {} |-> EmptyDict]
    /\ nCalls = [h \in {} |-> 0]
    /\ last = [op |-> "init"]
    /\ AgentConstructed
    /\ ServicesStarted

NextAgent ==
    \/ \E m \in Messages, f \in Faults : PM_Start(m, f)
    \/ \E o \in Outputs, r \in LLMResults : PM_Attempt(o, <<>>, r)
    \/ \E c \in BOOLEAN, r \in LLMResults : PM_AttemptRaises(c, r)
    \/ PM_AfterRetry
    \/ \E o \in Outputs, r \in LLMResults : PM_Continue(o, <<>>, r)
    \/ \E c \in BOOLEAN, r \in LLMResults : PM_ContinueRaises(c, r)
    \/ PM_Return

SpecAgent == InitAgent /\ [][NextAgent]_vars

----------------------------------------------------------------------------
(* POST /chat around process_message (app/api/server.py lines 161-188): a raised  *)
(* fault, or a response that is not text (ChatResponse.response: str), is a 500   *)

chat_status(outcome) ==
    IF outcome.kind = "return" /\ outcome.value.t = "str" THEN 200 ELSE 500

----------------------------------------------------------------------------
(* Claims about process_message *)

Finished == pm.pc = "idle" /\ pm.ret.kind # "none"

Text(v) == v.t = "str"

\* C7: process_message never raises: whatever fault the memory, the model, a tool or the
\* post-processing raises during a call, the call returns a text value, so that POST /chat
\* answers 200 and not 500.
C7_NeverRaises ==
    Finished => /\ pm.ret.kind = "return"
                /\ Text(pm.ret.value)
                /\ chat_status(pm.ret) = 200

\* the first call of the model returned the final-answer object
C8_Case ==
    /\ Finished
    /\ pm.calls # <<>>
    /\ ~pm.calls[1].raised
    /\ pm.calls[1].output \in {FinalAnswerObject, FinalAnswerDict}

C8_Outcome == pm.attempts = 1 /\ pm.ret = Returned(Str(<<"X">>))

\* C8 as stated: if the model emits the final-answer object with action_input "X" on its
\* first call, there is exactly one retry-loop attempt and exactly "X" is returned.
C8_Original == C8_Case => C8_Outcome

\* C8: if the model emits the final-answer object with action_input "X" on its first call
\* and the finish reason captured for that call is not "length", there is exactly one
\* retry-loop attempt and exactly "X" is returned.
C8_FinalAnswerFirstCall ==
    (C8_Case /\ pm.calls[1].finish_reason # "length") => C8_Outcome

C8_Witness ==
    /\ C8_Case
    /\ pm.calls[1].finish_reason = "stop"
    /\ C8_Outcome

\* the finish reasons captured after the first three calls of the model
C9_Codes ==
    /\ Finished
    /\ Len(pm.calls) >= 3
    /\ \A i \in 1..3 : ~pm.calls[i].raised
    /\ pm.calls[1].finish_reason = "length"
    /\ pm.calls[2].finish_reason = "length"
    /\ pm.calls[3].finish_reason = "stop"

\* two texts in call order, nothing between them
Concat(a, b) == Str(a.s \o b.s)

\* C9 as stated: with a model whose finish reason is "length" on its first two calls and
\* "stop" on its third, there are exactly 2 continuation calls and the three segments are
\* returned concatenated in call order.
C9_Original ==
    C9_Codes =>
        /\ pm.continuation_attempts = 2
        /\ pm.ret = Returned(Concat(Concat(pm.calls[1].output, pm.calls[2].output),
                                    pm.calls[3].output))

\* a continuation segment after the output so far: the whitespace at the junction is
\* replaced by one newline, and an empty segment adds nothing
Continued(a, b) == IF b.s = <<>> THEN a ELSE Str(rstrip(a.s) \o <<"\n">> \o lstrip(b.s))

C9_Segments == Continued(Continued(pm.calls[1].output, pm.calls[2].output), pm.calls[3].output)

\* the first call is recognised as a final answer, so that the second and third calls are
\* continuation calls, and the three outputs are texts
C9_Case ==
    /\ C9_Codes
    /\ pm.attempts = 1
    /\ \A i \in 1..3 : Text(pm.calls[i].output)

\* C9: with a model whose first output is recognised as a final answer and whose finish
\* reason is "length" on its first two calls and "stop" on its third, all outputs being text,
\* there are exactly 2 continuation calls; the accumulated output is the three segments in
\* call order, each non-empty continuation segment joined by a newline in place of the
\* whitespace at the junction, and it is returned as it is unless it reads as a JSON object
\* or carries the iteration-limit message.
C9_TwoContinuations ==
    C9_Case =>
        /\ pm.continuation_attempts = 2
        /\ Len(pm.calls) = 3
        /\ pm.current_output = C9_Segments
        /\ (~LooksLikeJsonObject(C9_Segments.s) /\ ~Contains(C9_Segments.s, IterationLimitMessage)
                => pm.ret = Returned(C9_Segments))

C9_Witness ==
    /\ C9_Case
    /\ pm.calls[1].output = TruncatedHead
    /\ pm.calls[2].output = PlainText
    /\ pm.calls[3].output = PlainText
    /\ pm.continuation_attempts = 2
    /\ pm.ret = Returned(Str(<<"{", ActionFinalAnswer, "\n", "a", "\n", "a", " ">>))

----------------------------------------------------------------------------
(* The agent stopping at the iteration limit: the traces of tool calls *)

Step(tool, tool_input, log, observation) ==
    [tool |-> tool, tool_input |-> tool_input, log |-> log, observation |-> observation]

Thought == <<" ", "Thought: je calcule", "\n">>

\* calculer_date called with a weekday, the date format spelling out "prochain lundi"
MondayStep(date) == Step("calculer_date", <<"weekday", "format">>, Thought, <<"prochain lundi", date>>)

\* calculer_date called with days only
DaysStep == Step("calculer_date", <<"days", "format">>, Thought, <<"prochain lundi", "09/06/2025">>)

\* calculer_date called with a weekday and the default format
PlainDateStep == Step("calculer_date", <<"weekday">>, Thought, <<"26/05/2025", " ">>)

\* another tool, called with a log that speaks of calculer_date and its weekday
MediaStep ==
    Step("extract_media_content", <<"media_id">>, <<"calculer_date", "weekday">>,
         <<"prochain lundi", "media">>)

\* an observation that itself carries the iteration-limit message
EchoStep ==
    Step("calculer_date", <<"weekday", "format">>, Thought, <<"prochain lundi", IterationLimitMessage>>)

StepLists ==
    { <<>>, <<MondayStep("26/05/2025"), MondayStep("02/06/2025")>>, <<DaysStep>>,
      <<PlainDateStep>>, <<MediaStep>>, <<MondayStep("26/05/2025"), EchoStep>> }

\* the tool calls of a continuation
ContinuationStepLists == { <<>>, <<MondayStep("09/06/2025")>>, <<DaysStep>> }

\* early_stopping_method "force": the output of an executor that ran out of iterations
LimitText == Str(<<IterationLimitMessage>>)

FinalText == Str(<<"Final Answer", "a">>)

TraceOutputs == {LimitText, FinalText}

TraceResults == {Generation("stop"), Generation("length")}

NextTrace ==
    \/ \E m \in Messages : PM_Start(m, "none")
    \/ \E o \in TraceOutputs, st \in StepLists, r \in TraceResults : PM_Attempt(o, st, r)
    \/ \E r \in TraceResults : PM_AttemptRaises(TRUE, r)
    \/ PM_AfterRetry
    \/ \E o \in TraceOutputs, st \in ContinuationStepLists, r \in TraceResults :
            PM_Continue(o, st, r)
    \/ \E r \in TraceResults : PM_ContinueRaises(TRUE, r)
    \/ PM_Return

SpecTrace == InitAgent /\ [][NextTrace]_vars

----------------------------------------------------------------------------
(* Claims about the iteration limit *)

Trace == last_intermediate_steps.steps

\* the call came to its end with an output text that carries the iteration-limit message
C10_Limit ==
    /\ Finished
    /\ Text(pm.current_output)
    /\ ~LooksLikeJsonObject(pm.current_output.s)
    /\ Contains(pm.current_output.s, "Agent stopped due to iteration limit")

DateObservations == {i \in 1..Len(Trace) : Trace[i].tool = "calculer_date"}

MondayObservations ==
    {i \in DateObservations : Contains(Trace[i].observation, "prochain lundi")}

\* C10 as stated: at the iteration limit, without a calculer_date observation in the trace
\* the iteration-limit message is returned verbatim; with a calculer_date observation that
\* contains "prochain lundi", the most recent such observation is returned instead.
C10_Original ==
    C10_Limit =>
        /\ (DateObservations = {} => pm.ret = Returned(pm.current_output))
        /\ (MondayObservations # {} =>
                pm.ret = Returned(Str(Trace[MaxOf(MondayObservations)].observation)))

\* the steps whose action text mentions calculer_date and weekday and whose observation
\* contains "prochain lundi"
C10_Recoverable ==
    {i \in 1..Len(Trace) :
        /\ Contains(StrAction(Trace[i]), "calculer_date")
        /\ Contains(StrAction(Trace[i]), "weekday")
        /\ Contains(Trace[i].observation, "prochain lundi")}

\* C10: at the iteration limit, when no step of the stored trace has an action text that
\* mentions both calculer_date and weekday and an observation containing "prochain lundi",
\* the output is returned verbatim; otherwise the most recent such observation is returned,
\* or the oldest one when the most recent itself carries the iteration-limit message.
C10_IterationLimitRecovery ==
    C10_Limit =>
        pm.ret = Returned(
            IF C10_Recoverable = {} THEN pm.current_output
            ELSE IF ~Contains(Trace[MaxOf(C10_Recoverable)].observation,
                              "Agent stopped due to iteration limit")
            THEN Str(Trace[MaxOf(C10_Recoverable)].observation)
            ELSE Str(Trace[MinOf(C10_Recoverable)].observation))

C10_Witness ==
    /\ C10_Limit
    /\ pm.current_output = LimitText
    /\ Trace = <<MondayStep("26/05/2025"), MondayStep("02/06/2025")>>
    /\ pm.ret = Returned(Str(<<"prochain lundi", "02/06/2025">>))

----------------------------------------------------------------------------
(* The agent factory: AGENT_INSTANCES, SESSION_CONFIGS, SESSION_META *)

\* datetime.isoformat(): the text of a clock reading
isoformat(t) == <<"iso", t>>

\* the configuration get_agent builds from the process-wide settings
\* (settings.llm.name, settings.llm.temperature, settings.memory.type,
\* settings.tools.enabled); every value is written as text
SettingsConfig ==
    [model_name |-> "LLM_NAME", temperature |-> "0.0", memory_type |-> "buffer",
     tools |-> "calculer_date"]

\* a dict with no entry; it is what "config_override=None" and "{}" share:
\* both are falsy
NoOverride == <<>>

\* dict.update / "for key, value in d.items(): config[key] = value"
Overlay(config, d) ==
    [k \in DOMAIN config \cup DOMAIN d |-> IF k \in DOMAIN d THEN d[k] ELSE config[k]]

\* dict.get(key, {})
GetOrEmpty(d, k) == IF k \in DOMAIN d THEN d[k] ELSE <<>>

\* a mutant of session_exists: every id is taken for a session
session_exists_always(instances, session_id) == session_id = session_id

\* AgentFactory.session_exists
session_exists(instances, session_id) == session_id \in DOMAIN instances

\* SESSION_META[session_id]["updated_at"] = ...: a mutant that also rewrites
\* created_at
RefreshBothStamps(meta, session_id, t) ==
    Put(meta, session_id, [created_at |-> isoformat(t), updated_at |-> isoformat(t)])

\* SESSION_META[session_id]["updated_at"] = datetime.utcnow().isoformat()
\* (this raises KeyError when the session has no metadata; the callers reach it
\* only for ids in AGENT_INSTANCES, which always have metadata)
RefreshUpdatedAt(meta, session_id, t) ==
    Put(meta, session_id, [meta[session_id] EXCEPT !.updated_at = isoformat(t)])

\* which sub-object update_session_config dereferences for a field, in the
\* order the code tests the fields
ConfigFields ==
    << [field |-> "temperature", holder |-> "llm"],
       [field |-> "model_name", holder |-> "llm"],
       [field |-> "memory_type", holder |-> "memory"],
       [field |-> "tools", holder |-> "tools"] >>

\* current_config[holder].attribute = value, on the plain dict get_agent
\* stored: the item lookup raises KeyError when the dict has no such key, and
\* the values it has (text, numbers, lists) accept no attribute assignment
AssignThroughHolder(current_config, holder) ==
    IF holder \notin DOMAIN current_config THEN "KeyError" ELSE "AttributeError"

\* the first field of config_update that update_session_config handles, 0 if none
RECURSIVE FirstSupplied(_, _)
FirstSupplied(config_update, i) ==
    IF i > Len(ConfigFields) THEN 0
    ELSE IF ConfigFields[i].field \in DOMAIN config_update THEN i
    ELSE FirstSupplied(config_update, i + 1)

\* AgentFactory.update_session_config
update_session_config(instances, configs, meta, session_id, config_update, t) ==
    IF ~session_exists(instances, session_id)
    THEN [kind |-> "return", value |-> "None", configs |-> configs, meta |-> meta]
    ELSE LET current_config == GetOrEmpty(configs, session_id)
             i == FirstSupplied(config_update, 1)
         IN  IF i # 0
             THEN [kind |-> AssignThroughHolder(current_config, ConfigFields[i].holder),
                   value |-> "None", configs |-> configs, meta |-> meta]
             ELSE [kind |-> "return", value |-> "config",
                   configs |-> Put(configs, session_id, current_config),
                   meta |-> RefreshUpdatedAt(meta, session_id, t)]

\* an Agent object: which construction it is and the configuration it was built with
AgentObject(serial, session_id, config) ==
    [serial |-> serial, session_id |-> session_id, config |-> config]

NoAgent == [serial |-> 0, session_id |-> "", config |-> <<>>]

\* AgentFactory.get_agent; "builds" says whether Agent(session_id, config)
\* returns (it raises when the language model cannot be initialised)
get_agent(instances, configs, meta, n, session_id, config_override, builds, t) ==
    IF session_id \in DOMAIN instances
    THEN LET u == IF DOMAIN config_override # {}
                  THEN update_session_config(instances, configs, meta, session_id,
                                             config_override, t)
                  ELSE [kind |-> "return", value |-> "None", configs |-> configs,
                        meta |-> meta]
         IN  IF u.kind # "return"
             THEN [kind |-> u.kind, agent |-> NoAgent, instances |-> instances,
                   configs |-> u.configs, meta |-> u.meta, n |-> n]
             ELSE [kind |-> "return", agent |-> instances[session_id],
                   instances |-> instances, configs |-> u.configs,
                   meta |-> RefreshUpdatedAt(u.meta, session_id, t), n |-> n]
    ELSE LET config == Overlay(SettingsConfig, config_override)
             stored == Put(configs, session_id, config)
             agent == AgentObject(n + 1, session_id, config)
         IN  IF ~builds
             THEN [kind |-> "Exception", agent |-> NoAgent, instances |-> instances,
                   configs |-> stored, meta |-> meta, n |-> n]
             ELSE [kind |-> "return", agent |-> agent,
                   instances |-> Put(instances, session_id, agent),
                   configs |-> stored,
                   meta |-> Put(meta, session_id,
                                [created_at |-> isoformat(t), updated_at |-> isoformat(t)]),
                   n |-> n + 1]

\* AgentFactory.get_session_data
get_session_data(instances, configs, meta, session_id) ==
    IF ~session_exists(instances, session_id) THEN "None"
    ELSE [session_id |-> session_id,
          config |-> GetOrEmpty(configs, session_id),
          created_at |-> IF session_id \in DOMAIN meta THEN meta[session_id].created_at
                         ELSE <<>>,
          updated_at |-> IF session_id \in DOMAIN meta THEN meta[session_id].updated_at
                         ELSE <<>>]

----------------------------------------------------------------------------
(* The session endpoints of app/api/server.py *)

\* the get_api_key dependency of an endpoint, for the credentials of a request
GateOutcome(cred) ==
    get_api_key(API_KEYS, environment, debug_mode, api_key_prefix, now, cred)

\* the response of a request whose dependency raised
GateStatus(g) == IF g.kind = "HTTPException" THEN g.status ELSE 500

\* a ChatRequest without session_id
NoSessionId == ""

\* what an endpoint action leaves alone besides the factory maps
EndpointFrame ==
    /\ UNCHANGED <<now, ticks, environment, debug_mode, api_key_prefix, nCalls>>
    /\ UNCHANGED agentVars
    /\ UNCHANGED <<managerVars, mediaVars, toolVars, http_wrappers, validations>>

\* the ids known to any of the three maps
UsedSessionIds ==
    DOMAIN AGENT_INSTANCES \cup DOMAIN SESSION_CONFIGS \cup DOMAIN SESSION_META

\* POST /chat for a request without media: the gate, "request.session_id or
\* uuid4()", get_agent, process_message and the ChatResponse.  process_message
\* of the session's agent is given by its outcome: "str" (a text), "other" (a
\* value ChatResponse rejects) or "raises"
Chat(request_session_id, uuid, config, cred, builds, outcome) ==
    LET g == GateOutcome(cred)
        session_id == IF request_session_id # NoSessionId THEN request_session_id ELSE uuid
        a == get_agent(AGENT_INSTANCES, SESSION_CONFIGS, SESSION_META, nAgents,
                       session_id, config, builds, now)
    IN  /\ request_session_id = NoSessionId => uuid \notin UsedSessionIds
        /\ API_KEYS' = g.store
        /\ IF g.kind # "return"
           THEN /\ UNCHANGED factoryVars
                /\ last' = [ op |-> "chat", gate |-> g.kind, status |-> GateStatus(g),
                             request_session_id |-> request_session_id,
                             session_id |-> session_id, config |-> config,
                             get_agent |-> "not called", agent |-> NoAgent ]
           ELSE /\ AGENT_INSTANCES' = a.instances
                /\ SESSION_CONFIGS' = a.configs
                /\ SESSION_META' = a.meta
                /\ nAgents' = a.n
                /\ last' = [ op |-> "chat", gate |-> g.kind,
                             status |-> IF a.kind = "return" /\ outcome = "str"
                                        THEN 200 ELSE 500,
                             request_session_id |-> request_session_id,
                             session_id |-> session_id, config |-> config,
                             get_agent |-> a.kind, agent |-> a.agent ]
        /\ EndpointFrame

\* GET /sessions/{session_id}
GetSession(session_id, cred) ==
    LET g == GateOutcome(cred)
    IN  /\ API_KEYS' = g.store
        /\ UNCHANGED factoryVars
        /\ last' = [ op |-> "get_session", gate |-> g.kind, session_id |-> session_id,
                     status |-> IF g.kind # "return" THEN GateStatus(g)
                                ELSE IF ~session_exists(AGENT_INSTANCES, session_id)
                                THEN 404 ELSE 200,
                     body |-> IF g.kind # "return" THEN "None"
                              ELSE get_session_data(AGENT_INSTANCES, SESSION_CONFIGS,
                                                    SESSION_META, session_id) ]
        /\ EndpointFrame

\* the fields of SessionConfigUpdate
SessionConfigUpdateFields == {"temperature", "memory_type", "model_name"}

\* PATCH /sessions/{session_id}/config; config_dict is the body without its
\* unset fields
PatchSessionConfig(session_id, config_dict, cred) ==
    LET g == GateOutcome(cred)
        u == update_session_config(AGENT_INSTANCES, SESSION_CONFIGS, SESSION_META,
                                   session_id, config_dict, now)
        called == /\ g.kind = "return"
                  /\ session_exists(AGENT_INSTANCES, session_id)
                  /\ DOMAIN config_dict # {}
    IN  /\ DOMAIN config_dict \subseteq SessionConfigUpdateFields
        /\ API_KEYS' = g.store
        /\ SESSION_CONFIGS' = IF called THEN u.configs ELSE SESSION_CONFIGS
        /\ SESSION_META' = IF called THEN u.meta ELSE SESSION_META
        /\ UNCHANGED <<AGENT_INSTANCES, nAgents>>
        /\ last' = [ op |-> "update_session_config", gate |-> g.kind,
                     session_id |-> session_id, config_dict |-> config_dict,
                     update |-> IF called THEN u.kind ELSE "not called",
                     status |-> IF g.kind # "return" THEN GateStatus(g)
                                ELSE IF ~session_exists(AGENT_INSTANCES, session_id)
                                THEN 404
                                ELSE IF DOMAIN config_dict = {} THEN 200
                                ELSE IF u.kind = "return" THEN 200 ELSE 500,
                     body |-> IF called /\ u.kind = "return"
                              THEN <<"message", "config">>
                              ELSE IF g.kind = "return"
                                      /\ session_exists(AGENT_INSTANCES, session_id)
                                      /\ DOMAIN config_dict = {}
                              THEN <<"message">> ELSE <<>> ]
        /\ EndpointFrame

\* a direct call of agent_factory.get_agent (the debug endpoints and the tools
\* call it with the ids of existing sessions)
GetAgent(session_id, config_override, builds) ==
    LET a == get_agent(AGENT_INSTANCES, SESSION_CONFIGS, SESSION_META, nAgents,
                       session_id, config_override, builds, now)
    IN  /\ AGENT_INSTANCES' = a.instances
        /\ SESSION_CONFIGS' = a.configs
        /\ SESSION_META' = a.meta
        /\ nAgents' = a.n
        /\ last' = [ op |-> "get_agent", session_id |-> session_id,
                     config_override |-> config_override, kind |-> a.kind,
                     agent |-> a.agent ]
        /\ UNCHANGED <<API_KEYS>>
        /\ EndpointFrame

----------------------------------------------------------------------------
(* The session manager of app/agents/session.py *)

HourSeconds == 3600

\* settings.session.ttl_hours
ttl_hours == 24

\* _cleanup_if_needed sweeps at most once per this many seconds
CleanupInterval == 3600

\* the names the module app.memory.manager binds: its imports, its logger and
\* its two classes
MemoryManagerModuleNames ==
    {"Dict", "List", "Optional", "Any", "ConversationBufferMemory",
     "ConversationSummaryMemory", "ConversationBufferWindowMemory", "BaseChatMemory",
     "BaseLLM", "get_logger", "logger", "MemoryManager", "MemoryStorage"}

\* "from app.memory.manager import memory_storage", executed when
\* app.agents.session is imported
SessionModuleImports == "memory_storage" \in MemoryManagerModuleNames

\* the fields of LLMSettings
LLMSettingsFields == {"name", "temperature", "max_tokens", "openai_api_key"}

\* get_llm_from_settings(settings: LLMSettings) reads settings.api_keys.openai
get_llm_from_settings ==
    IF "api_keys" \in LLMSettingsFields THEN "return" ELSE "AttributeError"

\* AgentFactory.create_agent, called with a session id
create_agent(n, session_id) ==
    IF get_llm_from_settings # "return"
    THEN [kind |-> get_llm_from_settings, agent |-> NoAgent, n |-> n]
    ELSE [kind |-> "return", agent |-> AgentObject(n + 1, session_id, SettingsConfig),
          n |-> n + 1]

\* Session.__init__
Session(session_id, agent, t) ==
    [session_id |-> session_id, agent |-> agent, created_at |-> t,
     last_interaction |-> t, config |-> <<>>]

\* Session.is_expired
is_expired(session, ttl, t) == t > session.last_interaction + ttl * HourSeconds

\* SessionManager.delete_session
delete_session(store, session_id) ==
    IF session_id \in DOMAIN store THEN Remove(store, session_id) ELSE store

\* SessionManager._cleanup_if_needed
cleanup_if_needed(store, lc, t) ==
    IF t - lc < CleanupInterval
    THEN [sessions |-> store, last_cleanup |-> lc]
    ELSE [sessions |-> [s \in {x \in DOMAIN store : ~is_expired(store[x], ttl_hours, t)}
                          |-> store[s]],
          last_cleanup |-> t]

\* SessionManager.create_session
create_session(store, lc, n, uuid, t) ==
    LET a == create_agent(n, uuid)
        c == cleanup_if_needed(Put(store, uuid, Session(uuid, a.agent, t)), lc, t)
    IN  IF a.kind # "return"
        THEN [kind |-> a.kind, value |-> <<>>, sessions |-> store, last_cleanup |-> lc,
              n |-> n]
        ELSE [kind |-> "return", value |-> <<Session(uuid, a.agent, t), uuid>>,
              sessions |-> c.sessions, last_cleanup |-> c.last_cleanup, n |-> a.n]

\* SessionManager.get_session
get_session(store, session_id, t) ==
    IF session_id \notin DOMAIN store
    THEN [kind |-> "return", value |-> <<>>, sessions |-> store]
    ELSE IF is_expired(store[session_id], ttl_hours, t)
    THEN [kind |-> "return", value |-> <<>>, sessions |-> delete_session(store, session_id)]
    ELSE LET s == [store[session_id] EXCEPT !.last_interaction = t]
         IN  [kind |-> "return", value |-> <<s>>, sessions |-> Put(store, session_id, s)]

\* what a call on the session manager leaves alone
ManagerFrame ==
    /\ UNCHANGED <<now, ticks, environment, debug_mode, api_key_prefix, API_KEYS, nCalls>>
    /\ UNCHANGED agentVars
    /\ UNCHANGED <<AGENT_INSTANCES, SESSION_CONFIGS, SESSION_META>>
    /\ UNCHANGED <<mediaVars, toolVars, http_wrappers, validations>>

\* a client imports app.agents.session and calls SessionManager.create_session
CreateSession(uuid) ==
    LET r == create_session(sessions, last_cleanup, nAgents, uuid, now)
    IN  /\ uuid \notin DOMAIN sessions
        /\ IF ~SessionModuleImports
           THEN /\ UNCHANGED <<sessions, last_cleanup, nAgents>>
                /\ last' = [ op |-> "SessionManager.create_session",
                             kind |-> "ImportError", value |-> <<>>, session_id |-> uuid ]
           ELSE /\ sessions' = r.sessions
                /\ last_cleanup' = r.last_cleanup
                /\ nAgents' = r.n
                /\ last' = [ op |-> "SessionManager.create_session",
                             kind |-> r.kind, value |-> r.value, session_id |-> uuid ]
        /\ ManagerFrame

\* a client imports app.agents.session and calls SessionManager.get_session
ManagerGetSession(session_id) ==
    LET r == get_session(sessions, session_id, now)
    IN  /\ IF ~SessionModuleImports
           THEN /\ UNCHANGED sessions
                /\ last' = [ op |-> "SessionManager.get_session",
                             kind |-> "ImportError", value |-> <<>>,
                             session_id |-> session_id ]
           ELSE /\ sessions' = r.sessions
                /\ last' = [ op |-> "SessionManager.get_session",
                             kind |-> r.kind, value |-> r.value,
                             session_id |-> session_id ]
        /\ UNCHANGED <<last_cleanup, nAgents>>
        /\ ManagerFrame

----------------------------------------------------------------------------
(* PUT /debug/monitor/http/{session_id}/{enable} *)

\* the tail of create_agent: with verbose set, httpx.HTTPTransport.handle_request is
\* replaced by a logging wrapper around the current one; nothing ever restores it
install_http_logging(wrappers, verbose) == IF verbose THEN wrappers + 1 ELSE wrappers

\* toggle_http_monitoring once its admin gate has passed: the status of the response, the
\* factory maps and the wrappers installed afterwards
toggle_http_monitoring(instances, configs, meta, n, wrappers, session_id, enable, t) ==
    IF ~session_exists(instances, session_id)
    THEN [status |-> 404, meta |-> meta, n |-> n, wrappers |-> wrappers]
    ELSE LET a == get_agent(instances, configs, meta, n, session_id, NoOverride, TRUE, t)
             c == create_agent(a.n, session_id)
         IN  IF c.kind # "return"
             THEN [status |-> 500, meta |-> a.meta, n |-> c.n, wrappers |-> wrappers]
             ELSE [status |-> 200, meta |-> a.meta, n |-> c.n,
                   wrappers |-> install_http_logging(wrappers, enable)]

ToggleHttpMonitoring(session_id, enable, cred) ==
    LET g == verify_admin_key(API_KEYS, environment, debug_mode, now, cred)
        r == toggle_http_monitoring(AGENT_INSTANCES, SESSION_CONFIGS, SESSION_META, nAgents,
                                    http_wrappers, session_id, enable, now)
        passed == g.kind = "return"
    IN  /\ API_KEYS' = g.store
        /\ SESSION_META' = IF passed THEN r.meta ELSE SESSION_META
        /\ nAgents' = IF passed THEN r.n ELSE nAgents
        /\ http_wrappers' = IF passed THEN r.wrappers ELSE http_wrappers
        /\ last' = [ op |-> "toggle_http_monitoring", gate |-> g.kind,
                     session_id |-> session_id, enable |-> enable,
                     known |-> session_exists(AGENT_INSTANCES, session_id),
                     status |-> IF passed THEN r.status ELSE GateStatus(g) ]
        /\ UNCHANGED <<AGENT_INSTANCES, SESSION_CONFIGS>>
        /\ UNCHANGED <<now, ticks, environment, debug_mode, api_key_prefix, nCalls>>
        /\ UNCHANGED agentVars
        /\ UNCHANGED <<managerVars, mediaVars, toolVars, validations>>

----------------------------------------------------------------------------
(* The sessions specification: the factory, its endpoints and the manager *)

\* the session ids of the model: one that uuid4 may produce and one a client made up
UuidIds == {"uuid-a"}

SessionIds == UuidIds \cup {"custom"}

\* the config overrides of a ChatRequest in the model: none, a known field and
\* a field the factory does not know
Overrides == {NoOverride, [temperature |-> "0.2"], [note |-> "x"]}

\* an override of the tools list, for direct calls of get_agent
ToolsOverride == [tools |-> "none"]

\* the bodies of PATCH /sessions/{id}/config, without their unset fields
ConfigDicts ==
    {NoOverride, [temperature |-> "0.2"], [model_name |-> "other", memory_type |-> "summary"]}

RequestCredentials == {NoCredentials}

InitSessions ==
    /\ now = 0
    /\ ticks = 0
    /\ environment \in {"development", "production"}
    /\ debug_mode = TRUE
    /\ api_key_prefix = <<"sk-">>
    /\ API_KEYS = [h \in {} |-> EmptyDict]
    /\ nCalls = [h \in {} |-> 0]
    /\ last = [op |-> "init"]
    /\ AgentConstructed
    /\ ServicesStarted

NextSessions ==
    \/ Tick(1)
    \/ \E uuid \in UuidIds, c \in Overrides, cred \in RequestCredentials,
          builds \in BOOLEAN, outcome \in {"str", "other", "raises"} :
          Chat(NoSessionId, uuid, c, cred, builds, outcome)
    \/ \E sid \in SessionIds, c \in Overrides, cred \in RequestCredentials,
          builds \in BOOLEAN, outcome \in {"str", "raises"} :
          Chat(sid, sid, c, cred, builds, outcome)
    \/ \E sid \in SessionIds, cred \in RequestCredentials : GetSession(sid, cred)
    \/ \E sid \in SessionIds, d \in ConfigDicts, cred \in RequestCredentials :
          PatchSessionConfig(sid, d, cred)
    \/ \E sid \in DOMAIN AGENT_INSTANCES, c \in Overrides \cup {ToolsOverride} :
          GetAgent(sid, c, TRUE)
    \/ \E uuid \in UuidIds : CreateSession(uuid)
    \/ \E sid \in SessionIds : ManagerGetSession(sid)
    \/ \E sid \in SessionIds, enable \in BOOLEAN, cred \in RequestCredentials :
          ToggleHttpMonitoring(sid, enable, cred)

SpecSessions == InitSessions /\ [][NextSessions]_vars

----------------------------------------------------------------------------
(* Claims about the sessions of the factory *)

\* a POST /chat that passed the gate has just been handled
ChatHandled == last'.op = "chat" /\ last'.gate = "return"

\* the entries of a map other than the one of session_id are what they were
OthersKept(old, new, session_id) ==
    /\ DOMAIN new \ {session_id} = DOMAIN old \ {session_id}
    /\ \A s \in DOMAIN old \ {session_id} : new[s] = old[s]

C11_Created ==
    (ChatHandled /\ last'.request_session_id = NoSessionId /\ last'.get_agent = "return") =>
        /\ last'.session_id \notin UsedSessionIds
        /\ last'.session_id \in DOMAIN AGENT_INSTANCES'
        /\ AGENT_INSTANCES'[last'.session_id] = last'.agent
        /\ last'.agent.serial = nAgents + 1
        /\ SESSION_META'[last'.session_id] =
              [created_at |-> isoformat(now), updated_at |-> isoformat(now)]
        /\ OthersKept(AGENT_INSTANCES, AGENT_INSTANCES', last'.session_id)
        /\ OthersKept(SESSION_META, SESSION_META', last'.session_id)

C11_Reused ==
    (ChatHandled /\ last'.request_session_id \in DOMAIN AGENT_INSTANCES
                 /\ DOMAIN last'.config = {}) =>
        /\ last'.get_agent = "return"
        /\ last'.agent = AGENT_INSTANCES[last'.session_id]
        /\ AGENT_INSTANCES' = AGENT_INSTANCES
        /\ nAgents' = nAgents
        /\ SESSION_CONFIGS' = SESSION_CONFIGS
        /\ SESSION_META'[last'.session_id].created_at =
              SESSION_META[last'.session_id].created_at
        /\ SESSION_META'[last'.session_id].updated_at = isoformat(now)
        /\ OthersKept(SESSION_META, SESSION_META', last'.session_id)

\* C11: a POST /chat without session_id that passes the gate and whose Agent is
\* constructed creates the session under an id no map knew, with created_at =
\* updated_at = now; a POST /chat with the id of a cached session and no config
\* override is served by the very Agent object that is cached, constructs none,
\* keeps the instance and config maps and the session's created_at, and changes
\* only the session's updated_at.
C11_ChatReusesSession == [][C11_Created /\ C11_Reused]_vars

\* a cached session created at one clock reading has been served again, by the
\* first Agent constructed, at a later one
C11_Witness ==
    /\ last.op = "chat"
    /\ last.gate = "return"
    /\ last.status = 200
    /\ last.request_session_id \in UuidIds
    /\ DOMAIN last.config = {}
    /\ last.agent.serial = 1
    /\ nAgents = 2
    /\ DOMAIN AGENT_INSTANCES = SessionIds
    /\ SESSION_META[last.session_id].created_at = isoformat(0)
    /\ SESSION_META[last.session_id].updated_at = isoformat(1)

\* the fields update_session_config knows
KnownConfigFields == {ConfigFields[i].field : i \in 1..Len(ConfigFields)}

\* what the claim C12 expects of a get_agent call for a cached session
C12_Merged(session_id, override, kind, agent) ==
    /\ kind = "return"
    /\ agent = AGENT_INSTANCES[session_id]
    /\ AGENT_INSTANCES' = AGENT_INSTANCES
    /\ nAgents' = nAgents
    /\ SESSION_CONFIGS'[session_id] = Overlay(SESSION_CONFIGS[session_id], override)
    /\ SESSION_META'[session_id].updated_at = isoformat(now)

\* C12: get_agent on a cached session with a config_override made of known fields
\* (temperature, model_name, memory_type, tools) merges the override into the stored
\* config, refreshes updated_at and returns the cached Agent, constructing none;
\* stated for direct calls and for the call POST /chat makes.
C12_OverrideMerged ==
    [][ /\ (/\ last'.op = "get_agent"
            /\ last'.session_id \in DOMAIN AGENT_INSTANCES
            /\ DOMAIN last'.config_override # {}
            /\ DOMAIN last'.config_override \subseteq KnownConfigFields)
           => C12_Merged(last'.session_id, last'.config_override, last'.kind, last'.agent)
        /\ (/\ ChatHandled
            /\ last'.session_id \in DOMAIN AGENT_INSTANCES
            /\ DOMAIN last'.config # {}
            /\ DOMAIN last'.config \subseteq KnownConfigFields)
           => C12_Merged(last'.session_id, last'.config, last'.get_agent, last'.agent)
      ]_vars

\* C13: PATCH /sessions/{id}/config with a non-empty body on a known session, past
\* the gate, answers 200 {message, config}: update_session_config has merged every
\* supplied field into the stored config and refreshed updated_at.
C13_PatchMerges ==
    [][ (/\ last'.op = "update_session_config"
         /\ last'.gate = "return"
         /\ last'.session_id \in DOMAIN AGENT_INSTANCES
         /\ DOMAIN last'.config_dict # {})
        => /\ last'.status = 200
           /\ last'.body = <<"message", "config">>
           /\ SESSION_CONFIGS'[last'.session_id] =
                 Overlay(SESSION_CONFIGS[last'.session_id], last'.config_dict)
           /\ SESSION_META'[last'.session_id].updated_at = isoformat(now)
      ]_vars

\* C14: for a session id that is not in AGENT_INSTANCES, GET /sessions/{id} and
\* PATCH /sessions/{id}/config, past the gate, answer 404 and leave AGENT_INSTANCES,
\* SESSION_CONFIGS and SESSION_META as they were.
C14_UnknownSession404 ==
    [][ (/\ last'.op \in {"get_session", "update_session_config"}
         /\ last'.gate = "return"
         /\ last'.session_id \notin DOMAIN AGENT_INSTANCES)
        => /\ last'.status = 404
           /\ UNCHANGED <<AGENT_INSTANCES, SESSION_CONFIGS, SESSION_META>>
      ]_vars

\* a PATCH with a non-empty body has been answered 404 for an id that has no
\* Agent, while another session exists
C14_Witness ==
    /\ last.op = "update_session_config"
    /\ last.gate = "return"
    /\ DOMAIN last.config_dict # {}
    /\ last.status = 404
    /\ last.session_id \notin DOMAIN AGENT_INSTANCES
    /\ DOMAIN AGENT_INSTANCES # {}

----------------------------------------------------------------------------
(* Claims about the session manager *)

\* C15: SessionManager.get_session returns normally; for an unknown id it yields
\* absent; for a session whose last_interaction lies more than ttl_hours in the past
\* it yields absent and the session has left the store; for an unexpired session it
\* returns the session with last_interaction refreshed to now.
C15_GetSessionTTL ==
    [][ last'.op = "SessionManager.get_session" =>
          /\ last'.kind = "return"
          /\ last'.session_id \notin DOMAIN sessions => last'.value = <<>>
          /\ (/\ last'.session_id \in DOMAIN sessions
              /\ now > sessions[last'.session_id].last_interaction + ttl_hours * HourSeconds)
             => (last'.value = <<>> /\ last'.session_id \notin DOMAIN sessions')
          /\ (/\ last'.session_id \in DOMAIN sessions
              /\ now <= sessions[last'.session_id].last_interaction + ttl_hours * HourSeconds)
             => /\ last'.value = <<sessions'[last'.session_id]>>
                /\ sessions'[last'.session_id].last_interaction = now
      ]_vars

\* C16: SessionManager.create_session returns (session, id) with an id the store
\* did not hold, and the store then holds that session.
C16_CreateSessionStores ==
    [][ last'.op = "SessionManager.create_session" =>
          /\ last'.kind = "return"
          /\ Len(last'.value) = 2
          /\ last'.value[2] \notin DOMAIN sessions
          /\ last'.value[2] \in DOMAIN sessions'
          /\ sessions'[last'.value[2]] = last'.value[1]
      ]_vars

----------------------------------------------------------------------------
(* Media: app/tools/media/core.py and the endpoints of app/api/media.py *)

\* a URL is the sequence of its lexemes: an optional scheme and ":", an optional
\* "//" and host, then path lexemes, the last of which may be an extension
PathLexemes == {"/img"}

Extensions == {".png", ".pdf"}

\* urllib.parse.urlparse: scheme, netloc and path of a URL
urlparse(url) ==
    LET scheme == IF Len(url) >= 2 /\ url[2] = ":" THEN url[1] ELSE ""
        rest == IF scheme # "" THEN SubSeq(url, 3, Len(url)) ELSE url
        hasNetloc == /\ Len(rest) >= 2
                     /\ rest[1] = "//"
                     /\ rest[2] \notin PathLexemes \cup Extensions
    IN  [scheme |-> scheme,
         netloc |-> IF hasNetloc THEN rest[2] ELSE "",
         path |-> IF hasNetloc THEN SubSeq(rest, 3, Len(rest)) ELSE rest]

\* os.path.splitext(path)[1]
splitext(path) ==
    IF Len(path) > 0 /\ path[Len(path)] \in Extensions THEN path[Len(path)] ELSE ""

\* a mutant of the URL test: a scheme or a host is enough
HasSchemeOrNetloc(parsed_url) == parsed_url.scheme # "" \/ parsed_url.netloc # ""

\* all([parsed_url.scheme, parsed_url.netloc])
HasSchemeAndNetloc(parsed_url) == parsed_url.scheme # "" /\ parsed_url.netloc # ""

\* hashlib.md5(url.encode()).hexdigest(), taken to be different for different URLs
md5(url) == <<"md5", url>>

\* response.headers.get('Content-Type', '').split(';')[0], the header being the
\* sequence of its lexemes
ContentTypeOf(header) == IF Len(header) > 0 /\ header[1] # ";" THEN header[1] ELSE ""

SUPPORTED_MIME_TYPES ==
    [ image |-> {"image/jpeg", "image/png", "image/gif", "image/webp"},
      document |-> {"application/pdf", "text/plain", "text/csv",
                    "application/vnd.openxmlformats-officedocument.wordprocessingml.document"},
      audio |-> {"audio/mpeg", "audio/wav", "audio/ogg"},
      video |-> {"video/mp4", "video/mpeg", "video/webm"} ]

\* the media types in the order the dict lists them
MediaTypeOrder == <<"image", "document", "audio", "video">>

\* url_to_media_type; the content types of the model are whole MIME types, for
\* which startswith is equality
url_to_media_type(url, content_type) ==
    LET byMime == {i \in 1..Len(MediaTypeOrder) :
                      content_type \in SUPPORTED_MIME_TYPES[MediaTypeOrder[i]]}
        ext == splitext(urlparse(url).path)
    IN  IF content_type # "" /\ byMime # {} THEN MediaTypeOrder[MinOf(byMime)]
        ELSE IF ext \in {".jpg", ".jpeg", ".png", ".gif", ".webp"} THEN "image"
        ELSE IF ext \in {".pdf", ".txt", ".doc", ".docx"} THEN "document"
        ELSE IF ext \in {".mp3", ".wav", ".ogg"} THEN "audio"
        ELSE IF ext \in {".mp4", ".mpeg", ".webm"} THEN "video"
        ELSE "document"

\* mimetypes.guess_extension, "" standing for None
guess_extension(content_type) ==
    IF content_type = "image/png" THEN ".png"
    ELSE IF content_type = "application/pdf" THEN ".pdf"
    ELSE ""

\* the extension of the cache file
CacheExtension(content_type, parsed_url) ==
    IF guess_extension(content_type) # "" THEN guess_extension(content_type)
    ELSE IF splitext(parsed_url.path) # "" THEN splitext(parsed_url.path)
    ELSE ".bin"

\* the media ids uuid4 produces, in order
MediaIdOf(n) == <<"media", n>>

\* response.raise_for_status(): HTTPError for a 4xx or 5xx status
raise_for_status(response) == response.status >= 400

\* MediaMetadata(...), download_date taking datetime.now()
MediaMetadata(media_id, url, local_path, media_type, content_type, size, session_id, t) ==
    [media_id |-> media_id, original_url |-> url, local_path |-> local_path,
     media_type |-> media_type, content_type |-> content_type, size |-> size,
     session_id |-> session_id, processed |-> FALSE, processed_content |-> NoneValue,
     download_date |-> t, reference_id |-> "None"]

\* no MediaMetadata: what fetch_media_from_url returns on failure and
\* media_registry.get returns for an unknown id
NoMetadata == [media_id |-> <<>>]

\* fetch_media_from_url.  "response" is what requests.get does for the URL (it
\* raises, or answers with a status, a Content-Type header and a body of some
\* size); "io" is what writing the cache file does: "ok", "open fails" or
\* "write fails" (the file has then been created or truncated, and is empty)
fetch_media_from_url(registry, cache, n, url, session_id, response, io, t) ==
    LET parsed_url == urlparse(url)
        media_id == MediaIdOf(n + 1)
        content_type == ContentTypeOf(response.header)
        media_type == url_to_media_type(url, content_type)
        filename == [hash |-> md5(url), ext |-> CacheExtension(content_type, parsed_url)]
        metadata == MediaMetadata(media_id, url, filename, media_type, content_type,
                                  response.size, session_id, t)
    IN  IF ~HasSchemeAndNetloc(parsed_url)
        THEN [value |-> NoMetadata, requests |-> 0, registry |-> registry,
              cache |-> cache, n |-> n]
        ELSE IF response.kind = "ConnectionError" \/ raise_for_status(response)
        THEN [value |-> NoMetadata, requests |-> 1, registry |-> registry,
              cache |-> cache, n |-> n + 1]
        ELSE IF io = "open fails"
        THEN [value |-> NoMetadata, requests |-> 1, registry |-> registry,
              cache |-> cache, n |-> n + 1]
        ELSE IF io = "write fails"
        THEN [value |-> NoMetadata, requests |-> 1, registry |-> registry,
              cache |-> Put(cache, filename, 0), n |-> n + 1]
        ELSE [value |-> metadata, requests |-> 1,
              registry |-> Put(registry, media_id, metadata),
              cache |-> Put(cache, filename, response.size), n |-> n + 1]

\* get_media_metadata
get_media_metadata(registry, media_id) ==
    IF media_id \in DOMAIN registry THEN registry[media_id] ELSE NoMetadata

\* a mutant of the selection: an age equal to the threshold is enough
ToDeleteInclusive(registry, max_age_hours, t) ==
    {m \in DOMAIN registry : t - registry[m].download_date >= max_age_hours * HourSeconds}

\* the items cleanup_old_media selects: age = (now - download_date) / 3600 hours,
\* "if age > max_age_hours"
ToDelete(registry, max_age_hours, t) ==
    {m \in DOMAIN registry : t - registry[m].download_date > max_age_hours * HourSeconds}

\* cleanup_old_media; removing an existing cache file succeeds
cleanup_old_media(registry, cache, max_age_hours, t) ==
    LET to_delete == ToDelete(registry, max_age_hours, t)
        files == {registry[m].local_path : m \in to_delete}
    IN  [count |-> Cardinality(to_delete),
         registry |-> [m \in DOMAIN registry \ to_delete |-> registry[m]],
         cache |-> [f \in DOMAIN cache \ files |-> cache[f]]]

\* the MediaInfo projection of a MediaMetadata
MediaInfo(metadata) ==
    [media_id |-> metadata.media_id, original_url |-> metadata.original_url,
     media_type |-> metadata.media_type, content_type |-> metadata.content_type,
     size |-> metadata.size, reference_id |-> metadata.reference_id,
     download_date |-> metadata.download_date, processed |-> metadata.processed]

\* the except clauses of an endpoint, applied to an HTTPException raised inside
\* its try block: "except HTTPException: raise" lets it through, "except
\* Exception" (HTTPException is an Exception) answers 500
StatusAfterHandlers(status, handlers) ==
    IF Len(handlers) > 0 /\ handlers[1] = "HTTPException" THEN status ELSE 500

\* the except clauses of load_media_from_url
LoadHandlers == <<"Exception">>

\* the except clauses of get_media_info and delete_media
InfoHandlers == <<"HTTPException", "Exception">>

\* a mutant of the registry after delete_media: the entry is deleted
RegistryWithout(registry, media_id) ==
    [m \in DOMAIN registry \ {media_id} |-> registry[m]]

\* the registry after delete_media: the deletion from the registry is a
\* placeholder ("pass")
RegistryAfterDelete(registry, media_id) == registry

\* what a media operation leaves alone besides the registry and the cache
MediaFrame ==
    /\ UNCHANGED <<now, ticks, environment, debug_mode, api_key_prefix, nCalls>>
    /\ UNCHANGED agentVars
    /\ UNCHANGED <<factoryVars, managerVars, toolVars, http_wrappers, validations>>

MaxMedia == 2

\* a call of fetch_media_from_url (the media tool and POST /chat make it)
FetchMedia(url, response, io) ==
    LET f == fetch_media_from_url(media_registry, media_cache, nMedia, url, "None",
                                  response, io, now)
    IN  /\ nMedia < MaxMedia
        /\ media_registry' = f.registry
        /\ media_cache' = f.cache
        /\ nMedia' = f.n
        /\ last' = [ op |-> "fetch_media_from_url", url |-> url, response |-> response,
                     io |-> io, value |-> f.value, requests |-> f.requests ]
        /\ UNCHANGED API_KEYS
        /\ MediaFrame

\* a call of cleanup_old_media (POST /media/cleanup makes it)
CleanupOldMedia(max_age_hours) ==
    LET c == cleanup_old_media(media_registry, media_cache, max_age_hours, now)
    IN  /\ media_registry' = c.registry
        /\ media_cache' = c.cache
        /\ last' = [ op |-> "cleanup_old_media", max_age_hours |-> max_age_hours,
                     count |-> c.count ]
        /\ UNCHANGED <<nMedia, API_KEYS>>
        /\ MediaFrame

\* POST /media/load
LoadMedia(url, reference_id, response, io, cred) ==
    LET g == GateOutcome(cred)
        f == fetch_media_from_url(media_registry, media_cache, nMedia, url, "None",
                                  response, io, now)
        merged == IF reference_id # "None"
                  THEN [f.value EXCEPT !.reference_id = reference_id] ELSE f.value
    IN  /\ nMedia < MaxMedia
        /\ API_KEYS' = g.store
        /\ IF g.kind # "return"
           THEN /\ UNCHANGED mediaVars
                /\ last' = [ op |-> "load_media_from_url", gate |-> g.kind,
                             status |-> GateStatus(g), url |-> url,
                             value |-> NoMetadata, body |-> <<>> ]
           ELSE /\ media_cache' = f.cache
                /\ nMedia' = f.n
                /\ IF f.value = NoMetadata
                   THEN /\ media_registry' = f.registry
                        /\ last' = [ op |-> "load_media_from_url", gate |-> g.kind,
                                     status |-> StatusAfterHandlers(400, LoadHandlers),
                                     url |-> url, value |-> NoMetadata, body |-> <<>> ]
                   ELSE /\ media_registry' = Put(f.registry, merged.media_id, merged)
                        /\ last' = [ op |-> "load_media_from_url", gate |-> g.kind,
                                     status |-> 200, url |-> url, value |-> merged,
                                     body |-> <<MediaInfo(merged)>> ]
        /\ MediaFrame

\* GET /media/{media_id}
GetMediaInfo(media_id, cred) ==
    LET g == GateOutcome(cred)
        metadata == get_media_metadata(media_registry, media_id)
    IN  /\ API_KEYS' = g.store
        /\ last' = [ op |-> "get_media_info", gate |-> g.kind, media_id |-> media_id,
                     status |-> IF g.kind # "return" THEN GateStatus(g)
                                ELSE IF metadata = NoMetadata
                                THEN StatusAfterHandlers(404, InfoHandlers) ELSE 200,
                     body |-> IF g.kind = "return" /\ metadata # NoMetadata
                              THEN <<MediaInfo(metadata)>> ELSE <<>> ]
        /\ UNCHANGED mediaVars
        /\ MediaFrame

\* DELETE /media/{media_id}; removing an existing cache file succeeds
DeleteMedia(media_id, cred) ==
    LET g == GateOutcome(cred)
        metadata == get_media_metadata(media_registry, media_id)
        found == g.kind = "return" /\ metadata # NoMetadata
    IN  /\ API_KEYS' = g.store
        /\ media_cache' = IF found THEN Remove(media_cache, metadata.local_path)
                          ELSE media_cache
        /\ media_registry' = IF found THEN RegistryAfterDelete(media_registry, media_id)
                             ELSE media_registry
        /\ last' = [ op |-> "delete_media", gate |-> g.kind, media_id |-> media_id,
                     status |-> IF g.kind # "return" THEN GateStatus(g)
                                ELSE IF metadata = NoMetadata
                                THEN StatusAfterHandlers(404, InfoHandlers) ELSE 200,
                     file_existed |-> found /\ metadata.local_path \in DOMAIN media_cache ]
        /\ UNCHANGED nMedia
        /\ MediaFrame

\* the URLs of the model: a valid one, a text that is no URL, one without
\* scheme and one without host
ValidUrl == <<"https", ":", "//", "example.com", "/img", ".png">>

NotAUrl == <<"not-a-url">>

NoSchemeUrl == <<"//", "example.com", "/img", ".png">>

NoHostUrl == <<"https", ":", "/img", ".png">>

Urls == {ValidUrl, NotAUrl, NoSchemeUrl, NoHostUrl}

\* what requests.get does in the model
HttpResponse(kind, status, header, size) ==
    [kind |-> kind, status |-> status, header |-> header, size |-> size]

Responses ==
    { HttpResponse("ConnectionError", 0, <<>>, 0),
      HttpResponse("response", 404, <<"text/html">>, 3),
      HttpResponse("response", 200, <<"image/png", ";", "charset=binary">>, 3),
      HttpResponse("response", 200, <<>>, 0) }

OkResponse == HttpResponse("response", 200, <<"image/png", ";", "charset=binary">>, 3)

IoOutcomes == {"ok", "open fails", "write fails"}

\* the calls of fetch_media_from_url in the model: the valid URL with every
\* response, the valid URL with every outcome of the file writing, and every
\* URL with a server that would answer
FetchInputs ==
    {<<ValidUrl, r, "ok">> : r \in Responses}
        \cup {<<ValidUrl, OkResponse, io>> : io \in IoOutcomes}
        \cup {<<url, OkResponse, "ok">> : url \in Urls}

MediaIds == {MediaIdOf(n) : n \in 1..(MaxMedia + 1)}

\* the thresholds of cleanup_old_media in the model, in hours
MaxAgeHours == {0, 1, 9999}

InitMedia ==
    /\ now = 0
    /\ ticks = 0
    /\ environment = "development"
    /\ debug_mode = TRUE
    /\ api_key_prefix = <<"sk-">>
    /\ API_KEYS = [h \in {} |-> EmptyDict]
    /\ nCalls = [h \in {} |-> 0]
    /\ last = [op |-> "init"]
    /\ AgentConstructed
    /\ ServicesStarted

NextMedia ==
    \/ Tick(HourSeconds)
    \/ \E i \in FetchInputs : FetchMedia(i[1], i[2], i[3])
    \/ \E h \in MaxAgeHours : CleanupOldMedia(h)
    \/ \E i \in FetchInputs, ref \in {"None", "ref"} :
          LoadMedia(i[1], ref, i[2], i[3], NoCredentials)
    \/ \E m \in MediaIds : GetMediaInfo(m, NoCredentials)
    \/ \E m \in MediaIds : DeleteMedia(m, NoCredentials)

SpecMedia == InitMedia /\ [][NextMedia]_vars

----------------------------------------------------------------------------
(* Claims about media *)

\* the fetch just made failed on the network or on the file system
C17_Failed ==
    \/ last'.response.kind # "response"
    \/ last'.response.status >= 400
    \/ last'.io # "ok"

\* C17: fetch_media_from_url on a URL without scheme or without host returns absent,
\* issues no network request and leaves the registry unchanged; when the request or
\* the writing of the cache file fails it returns absent and the registry is
\* unchanged; when it returns a record, the registry has exactly one more entry, under
\* an id it did not hold, and that entry is the returned record, whose size is the
\* number of bytes downloaded.
C17_FetchOutcomes ==
    [][ last'.op = "fetch_media_from_url" =>
          /\ (urlparse(last'.url).scheme = "" \/ urlparse(last'.url).netloc = "")
                => /\ last'.value = NoMetadata
                   /\ last'.requests = 0
                   /\ media_registry' = media_registry
          /\ C17_Failed
                => /\ last'.value = NoMetadata
                   /\ media_registry' = media_registry
          /\ last'.value # NoMetadata
                => /\ last'.value.media_id \notin DOMAIN media_registry
                   /\ DOMAIN media_registry' = DOMAIN media_registry \cup {last'.value.media_id}
                   /\ \A m \in DOMAIN media_registry : media_registry'[m] = media_registry[m]
                   /\ media_registry'[last'.value.media_id] = last'.value
                   /\ last'.value.size = last'.response.size
                   /\ last'.requests = 1
          /\ (/\ urlparse(last'.url).scheme # ""
              /\ urlparse(last'.url).netloc # ""
              /\ ~C17_Failed)
                => last'.value # NoMetadata
      ]_vars

\* a fetch of three bytes has succeeded after an earlier fetch that failed once the
\* request was made
C17_Witness ==
    /\ last.op = "fetch_media_from_url"
    /\ last.value # NoMetadata
    /\ last.value.size = 3
    /\ last.value.media_id = MediaIdOf(2)
    /\ DOMAIN media_registry = {MediaIdOf(2)}

\* a cleanup_old_media call has just been made
C18_Called == last'.op = "cleanup_old_media"

\* the items of the registry whose age in hours exceeds the threshold of the call
C18_Older ==
    {m \in DOMAIN media_registry :
        now - media_registry[m].download_date > last'.max_age_hours * HourSeconds}

\* the call removed exactly the items of "gone" and returned how many they are
C18_Removed(gone) ==
    /\ DOMAIN media_registry' = DOMAIN media_registry \ gone
    /\ \A m \in DOMAIN media_registry' : media_registry'[m] = media_registry[m]
    /\ last'.count = Cardinality(gone)

\* C18 as stated: with max_age_hours = 0 the call removes every registered item and
\* returns their number; in general it removes exactly the items whose age exceeds
\* the threshold and returns the number removed.
C18_Original ==
    [][ C18_Called =>
          /\ C18_Removed(C18_Older)
          /\ last'.max_age_hours = 0 => C18_Removed(DOMAIN media_registry)
      ]_vars

\* C18: cleanup_old_media removes exactly the items whose age exceeds the threshold
\* and returns their number; with max_age_hours = 0 these are the items whose
\* download_date is earlier than the clock reading of the call, an item downloaded at
\* that very reading being retained; with max_age_hours = 9999 an item downloaded
\* less than 9999 hours ago is retained.
C18_CleanupByAge ==
    [][ C18_Called =>
          /\ C18_Removed(C18_Older)
          /\ last'.max_age_hours = 0 =>
                C18_Removed({m \in DOMAIN media_registry :
                                media_registry[m].download_date < now})
          /\ last'.max_age_hours = 9999 =>
                \A m \in DOMAIN media_registry :
                    now - media_registry[m].download_date <= 9999 * HourSeconds
                        => m \in DOMAIN media_registry'
      ]_vars

\* cleanup_old_media(0) has removed one item and retained one downloaded at the clock
\* reading of the call
C18_Witness ==
    /\ last.op = "cleanup_old_media"
    /\ last.max_age_hours = 0
    /\ last.count = 1
    /\ Cardinality(DOMAIN media_registry) = 1
    /\ \A m \in DOMAIN media_registry : media_registry[m].download_date = now

C20_LoadStatus ==
    [][ (last'.op = "load_media_from_url" /\ last'.gate = "return") =>
          IF last'.value = NoMetadata
          THEN last'.status = 400
          ELSE /\ last'.status = 200
               /\ last'.value.media_id \notin DOMAIN media_registry
               /\ last'.body = <<MediaInfo(media_registry'[last'.value.media_id])>>
      ]_vars


----------------------------------------------------------------------------
(* The tool registry: src/app/tools/registry.py *)

\* StructuredTool.from_function(func, name, ...), as far as the registry tells tools apart
StructuredTool(name, func) == [name |-> name, func |-> func]

\* the decorator returned by register(name): both registries get an entry under the name
register(tools, schemas, name, func) ==
    [tools   |-> Put(tools, name, StructuredTool(name, func)),
     schemas |-> Put(schemas, name, <<"schema", func>>)]

\* the modules under app/tools whose body applies @register, with the names they register
ModuleTools ==
    [m \in {"app.tools.date.tool", "app.tools.media.tool"} |->
        IF m = "app.tools.date.tool"
        THEN {"calculer_date"}
        ELSE {"load_media_from_url", "list_available_media", "extract_media_content"}]

\* importlib.import_module on the modules of `path`: a module already in sys.modules is not
\* executed again, a module of `importable` is executed (its decorators register its tools),
\* and the import of any other module raises, which is logged and swallowed
_recursive_import_tools(tools, schemas, modules, importable) ==
    LET fresh == (DOMAIN ModuleTools \cap importable) \ modules
        names == UNION {ModuleTools[m] : m \in fresh}
    IN  [tools   |-> [n \in DOMAIN tools \cup names |->
                         IF n \in names THEN StructuredTool(n, n) ELSE tools[n]],
         schemas |-> [n \in DOMAIN schemas \cup names |->
                         IF n \in names THEN <<"schema", n>> ELSE schemas[n]],
         modules |-> modules \cup fresh]

\* load_all_tools: discovery, then every registered tool (the order of the list is left out)
load_all_tools(tools, schemas, modules, importable) ==
    LET d == _recursive_import_tools(tools, schemas, modules, importable)
    IN  [ret |-> {d.tools[n] : n \in DOMAIN d.tools},
         tools |-> d.tools, schemas |-> d.schemas, modules |-> d.modules]

\* a selection loop that gives up at the first name it does not find
RECURSIVE SelectUntilUnknown(_, _)
SelectUntilUnknown(tools, names) ==
    IF names = <<>> \/ Head(names) \notin DOMAIN tools
    THEN <<>>
    ELSE <<tools[Head(names)]>> \o SelectUntilUnknown(tools, Tail(names))

\* the loop of load_tools: in the order of names, append what _TOOLS_REGISTRY.get finds
RECURSIVE SelectTools(_, _)
SelectTools(tools, names) ==
    IF names = <<>>
    THEN <<>>
    ELSE (IF Head(names) \in DOMAIN tools THEN <<tools[Head(names)]>> ELSE <<>>)
             \o SelectTools(tools, Tail(names))

\* load_tools(names): discovery when the registry is empty, then the selection
load_tools(tools, schemas, modules, names, importable) ==
    LET d == IF DOMAIN tools = {}
             THEN load_all_tools(tools, schemas, modules, importable)
             ELSE [tools |-> tools, schemas |-> schemas, modules |-> modules]
    IN  [ret |-> SelectTools(d.tools, names),
         tools |-> d.tools, schemas |-> d.schemas, modules |-> d.modules]

\* what a call on the registry or on a tool leaves alone
ToolFrame ==
    /\ UNCHANGED <<now, ticks, environment, debug_mode, api_key_prefix, API_KEYS, nCalls>>
    /\ UNCHANGED agentVars
    /\ UNCHANGED <<factoryVars, managerVars, mediaVars, http_wrappers, validations>>

\* a module applies @register(name=name) to func
RegisterTool(name, func) ==
    LET r == register(TOOLS_REGISTRY, SCHEMA_REGISTRY, name, func)
    IN  /\ TOOLS_REGISTRY' = r.tools
        /\ SCHEMA_REGISTRY' = r.schemas
        /\ last' = [op |-> "register", name |-> name]
        /\ UNCHANGED tool_modules
        /\ ToolFrame

\* clear_registry()
ClearRegistry ==
    /\ TOOLS_REGISTRY' = <<>>
    /\ SCHEMA_REGISTRY' = <<>>
    /\ last' = [op |-> "clear_registry"]
    /\ UNCHANGED tool_modules
    /\ ToolFrame

\* load_all_tools()
LoadAllTools(importable) ==
    LET r == load_all_tools(TOOLS_REGISTRY, SCHEMA_REGISTRY, tool_modules, importable)
    IN  /\ TOOLS_REGISTRY' = r.tools
        /\ SCHEMA_REGISTRY' = r.schemas
        /\ tool_modules' = r.modules
        /\ last' = [op |-> "load_all_tools", result |-> r.ret]
        /\ ToolFrame

\* load_tools(names)
LoadTools(names, importable) ==
    LET r == load_tools(TOOLS_REGISTRY, SCHEMA_REGISTRY, tool_modules, names, importable)
    IN  /\ TOOLS_REGISTRY' = r.tools
        /\ SCHEMA_REGISTRY' = r.schemas
        /\ tool_modules' = r.modules
        /\ last' = [op |-> "load_tools", names |-> names, result |-> r.ret]
        /\ ToolFrame


----------------------------------------------------------------------------
(* The date tool: src/app/tools/date/core.py, src/app/tools/date/tool.py *)

\* datetime.datetime.now() as a day count since 1970-01-01 (the clock is read in UTC)
TodayOf(t) == t \div DaySeconds

\* date.weekday(): 0 is Monday; 1970-01-01 was a Thursday
weekday_of(day) == (day + 3) % 7

\* the (year, month, day) of a day count, in the proleptic Gregorian calendar
YearMonthDay(day) ==
    LET z   == day + 719468
        era == z \div 146097
        doe == z - era * 146097
        yoe == (doe - doe \div 1460 + doe \div 36524 - doe \div 146096) \div 365
        doy == doe - (365 * yoe + yoe \div 4 - yoe \div 100)
        mp  == (5 * doy + 2) \div 153
        d   == doy - (153 * mp + 2) \div 5 + 1
        m   == IF mp < 10 THEN mp + 3 ELSE mp - 9
        y   == yoe + era * 400 + (IF m <= 2 THEN 1 ELSE 0)
    IN  [year |-> y, month |-> m, day |-> d]

DigitChars == <<"0", "1", "2", "3", "4", "5", "6", "7", "8", "9">>

\* the decimal digits of n >= 0, zero-padded to width w (%d, %m, %Y of strftime)
RECURSIVE Digits(_, _)
Digits(n, w) == IF w = 0 THEN <<>> ELSE Digits(n \div 10, w - 1) \o <<DigitChars[(n % 10) + 1]>>

\* str(n) of a small integer, as f"{weekday}" renders it
IntStr(n) == IF n < 0 THEN <<"-">> \o Digits(-n, 1) ELSE Digits(n, 1)

DefaultFormat == "%d/%m/%Y"

\* new_date.strftime(format_str) for the formats used here
strftime(day, format_str) ==
    LET c == YearMonthDay(day)
    IN  IF format_str = DefaultFormat
        THEN Digits(c.day, 2) \o <<"/">> \o Digits(c.month, 2) \o <<"/">> \o Digits(c.year, 4)
        ELSE Digits(c.year, 4) \o <<"-">> \o Digits(c.month, 2) \o <<"-">> \o Digits(c.day, 2)

\* a range test that forgets the lower end
WeekdayAtMostSix(weekday) == weekday <= 6

\* 0 <= weekday <= 6
WeekdayInRange(weekday) == 0 <= weekday /\ weekday <= 6

\* a step to the requested weekday that lets today count
DaysAheadOrToday(weekday, current_weekday) ==
    LET days_ahead == weekday - current_weekday
    IN  IF days_ahead < 0 THEN days_ahead + 7 ELSE days_ahead

\* days_ahead: the step to the requested weekday, a full week when it is today's
DaysAhead(weekday, current_weekday) ==
    LET days_ahead == weekday - current_weekday
    IN  IF days_ahead <= 0 THEN days_ahead + 7 ELSE days_ahead

WeekdayError(weekday) ==
    <<"Erreur: weekday (">> \o IntStr(weekday)
        \o <<") doit être entre 0 (lundi) et 6 (dimanche).">>

\* an Optional[int] argument: NoInt is None, <<n>> is the integer n
NoInt == <<>>

\* an offset test that wants both arguments non-zero
HasBothOffsets(days, weeks) == days # <<0>> /\ weeks # <<0>>

\* days != 0 or weeks != 0 (None differs from 0)
HasOffset(days, weeks) == days # <<0>> \/ weeks # <<0>>

\* calculate_date_core(days, weeks, weekday, format_str) at clock t
calculate_date_core(days, weeks, weekday, format_str, t) ==
    LET today == TodayOf(t)
        Date(day) == [kind |-> "return", value |-> strftime(day, format_str)]
    IN  IF HasOffset(days, weeks)
        THEN \* timedelta(days = days + weeks*7 if weeks is not None else days)
             IF days = NoInt
             THEN [kind |-> "raise", value |-> "TypeError"]
             ELSE IF weeks = NoInt
                  THEN Date(today + days[1])
                  ELSE Date(today + days[1] + weeks[1] * 7)
        ELSE IF weekday # NoInt
             THEN IF ~WeekdayInRange(weekday[1])
                  THEN [kind |-> "return", value |-> WeekdayError(weekday[1])]
                  ELSE IF weekday[1] \notin 0..6
                       THEN [kind |-> "raise", value |-> "KeyError"]   \* jour_semaine[weekday]
                       ELSE Date(today + DaysAhead(weekday[1], weekday_of(today)))
             ELSE Date(today)

\* the tool calculer_date delegates to calculate_date_core
calculer_date(days, weeks, weekday, format, t) ==
    calculate_date_core(days, weeks, weekday, format, t)

\* the tool is called
CalculerDate(days, weeks, weekday, format) ==
    LET r == calculer_date(days, weeks, weekday, format, now)
    IN  /\ last' = [op |-> "calculer_date", days |-> days, weeks |-> weeks,
                    weekday |-> weekday, format |-> format,
                    kind |-> r.kind, value |-> r.value]
        /\ UNCHANGED toolVars
        /\ ToolFrame

----------------------------------------------------------------------------
(* The tools specification *)

ToolNames == {"a", "b"}

ToolFuncs == {"f", "g"}

NameLists ==
    {<<>>, <<"a">>, <<"a", "c">>, <<"c", "a">>, <<"b", "a">>, <<"a", "a">>,
     <<"calculer_date", "c">>}

Importables == {{}, {"app.tools.date.tool"}, DOMAIN ModuleTools}

InitTools ==
    /\ now = 0
    /\ ticks = 0
    /\ environment = "development"
    /\ debug_mode = TRUE
    /\ api_key_prefix = <<"sk-">>
    /\ API_KEYS = [h \in {} |-> EmptyDict]
    /\ nCalls = [h \in {} |-> 0]
    /\ last = [op |-> "init"]
    /\ AgentConstructed
    /\ ServicesStarted

NextTools ==
    \/ \E name \in ToolNames, func \in ToolFuncs : RegisterTool(name, func)
    \/ ClearRegistry
    \/ \E importable \in Importables : LoadAllTools(importable)
    \/ \E names \in NameLists, importable \in Importables : LoadTools(names, importable)

SpecTools == InitTools /\ [][NextTools]_vars

----------------------------------------------------------------------------
(* The date specification *)

\* Tuesday 2024-02-27 (two days before a leap day), Friday 2025-05-16, Tuesday 2025-12-30
StartDays == {19780, 20224, 20452}

DayOffsets == {<<0>>, <<1>>, <<-1>>, NoInt}

WeekOffsets == {<<0>>, <<1>>, NoInt}

Weekdays == {<<w>> : w \in -1..7} \cup {NoInt}

Formats == {DefaultFormat, "%Y-%m-%d"}

InitDate ==
    /\ now \in {d * DaySeconds : d \in StartDays} \cup {20224 * DaySeconds + DaySeconds - 1}
    /\ ticks = 0
    /\ environment = "development"
    /\ debug_mode = TRUE
    /\ api_key_prefix = <<"sk-">>
    /\ API_KEYS = [h \in {} |-> EmptyDict]
    /\ nCalls = [h \in {} |-> 0]
    /\ last = [op |-> "init"]
    /\ AgentConstructed
    /\ ServicesStarted

NextDate ==
    \/ Tick(DaySeconds)
    \/ \E days \in DayOffsets, weeks \in WeekOffsets, weekday \in Weekdays, format \in Formats :
          CalculerDate(days, weeks, weekday, format)

SpecDate == InitDate /\ [][NextDate]_vars

----------------------------------------------------------------------------
(* Claims about the tool registry *)

\* the names of `names` that the registry knows, in the order of names
KnownNames(names, tools) == SelectSeq(names, LAMBDA n : n \in DOMAIN tools)

\* the answer is exactly the tools of the known names, in the order of names
ExactlyTheRegistered(result, names, tools) ==
    LET known == KnownNames(names, tools)
    IN  /\ Len(result) = Len(known)
        /\ \A i \in 1..Len(known) : result[i] = tools[known[i]]

\* C21 as stated: load_tools(names) returns exactly the registered tools whose names occur in
\* names, in the order of names, skipping unknown names, and leaves the registry contents
\* unchanged
C21_Original ==
    [][last'.op = "load_tools" =>
          /\ ExactlyTheRegistered(last'.result, last'.names, TOOLS_REGISTRY)
          /\ TOOLS_REGISTRY' = TOOLS_REGISTRY
          /\ SCHEMA_REGISTRY' = SCHEMA_REGISTRY]_vars

\* C21: on a registry that is not empty, load_tools(names) returns exactly the registered
\* tools whose names occur in names, in the order of names, skipping unknown names, and
\* leaves the registry unchanged; on an empty registry it first runs discovery, which
\* registers the tools of the tool modules imported by that run and nothing else, and the
\* selection is made from the registry as discovery left it
C21_LoadTools ==
    [][last'.op = "load_tools" =>
          /\ ExactlyTheRegistered(last'.result, last'.names, TOOLS_REGISTRY')
          /\ DOMAIN TOOLS_REGISTRY # {} =>
                /\ TOOLS_REGISTRY' = TOOLS_REGISTRY
                /\ SCHEMA_REGISTRY' = SCHEMA_REGISTRY
                /\ tool_modules' = tool_modules
          /\ DOMAIN TOOLS_REGISTRY = {} =>
                DOMAIN TOOLS_REGISTRY' =
                    UNION {ModuleTools[m] : m \in tool_modules' \ tool_modules}]_vars

\* registry {a, b}, names [a, c]: exactly the tool a was returned
C21_Witness ==
    /\ last.op = "load_tools"
    /\ last.names = <<"a", "c">>
    /\ DOMAIN TOOLS_REGISTRY = {"a", "b"}
    /\ last.result = <<TOOLS_REGISTRY["a"]>>

\* load_tools on an empty registry registered the date tool and returned it
C21_Discovered ==
    /\ last.op = "load_tools"
    /\ last.names = <<"calculer_date", "c">>
    /\ Len(last.result) = 1
    /\ tool_modules = {"app.tools.date.tool"}
    /\ DOMAIN TOOLS_REGISTRY = {"calculer_date"}


----------------------------------------------------------------------------
(* Claims about the date tool *)

IsDigit(c) == \E d \in 1..10 : DigitChars[d] = c

DigitValue(c) == (CHOOSE d \in 1..10 : DigitChars[d] = c) - 1

\* int(text) of a run of digits
RECURSIVE NumberOf(_)
NumberOf(chars) ==
    IF chars = <<>> THEN 0
    ELSE 10 * NumberOf(SubSeq(chars, 1, Len(chars) - 1)) + DigitValue(chars[Len(chars)])

\* the day count of a calendar date
DaysFromCivil(year, month, day) ==
    LET y   == IF month <= 2 THEN year - 1 ELSE year
        era == y \div 400
        yoe == y - era * 400
        mp  == IF month > 2 THEN month - 3 ELSE month + 9
        doy == (153 * mp + 2) \div 5 + day - 1
        doe == yoe * 365 + yoe \div 4 - yoe \div 100 + doy
    IN  era * 146097 + doe - 719468

\* the positions of the separators and of day, month and year in a text of a format
Layout(format) ==
    IF format = DefaultFormat
    THEN [sep |-> "/", seps |-> {3, 6}, d |-> <<1, 2>>, m |-> <<4, 5>>, y |-> <<7, 10>>]
    ELSE [sep |-> "-", seps |-> {5, 8}, d |-> <<9, 10>>, m |-> <<6, 7>>, y |-> <<1, 4>>]

\* the text reads as a date of the format
IsDateText(text, format) ==
    /\ Len(text) = 10
    /\ \A i \in 1..10 : IF i \in Layout(format).seps
                        THEN text[i] = Layout(format).sep
                        ELSE IsDigit(text[i])

\* the day count a date text stands for
ParsedDay(text, format) ==
    LET l == Layout(format)
        n(p) == NumberOf(SubSeq(text, p[1], p[2]))
    IN  DaysFromCivil(n(l.y), n(l.m), n(l.d))

\* the call just made asked for a weekday only
WeekdayCall == last.op = "calculer_date" /\ last.days = <<0>> /\ last.weeks = <<0>>
                   /\ last.weekday # NoInt

\* C22: calculer_date with days = 0, weeks = 0 and weekday in 0..6 returns a date d with
\* 1 <= d - today <= 7 whose weekday is the requested one; when the requested weekday is
\* today's the result is today + 7, never today (weekday 0 on Friday 2025-05-16 gives
\* "19/05/2025")
C22_NextWeekday ==
    (WeekdayCall /\ last.weekday[1] \in 0..6) =>
        /\ last.kind = "return"
        /\ IsDateText(last.value, last.format)
        /\ LET d     == ParsedDay(last.value, last.format)
               today == TodayOf(now)
           IN  /\ 1 <= d - today /\ d - today <= 7
               /\ (d - 19779) % 7 = last.weekday[1]     \* 2024-02-26 was a Monday
               /\ ((today - 19779) % 7 = last.weekday[1]) => (d = today + 7)
               /\ (today = 20224 /\ last.weekday = <<0>> /\ last.format = DefaultFormat) =>
                      last.value = <<"1", "9", "/", "0", "5", "/", "2", "0", "2", "5">>

\* on Friday 2025-05-16 the tool was asked for Friday and answered the 23rd
C22_Witness ==
    /\ WeekdayCall
    /\ TodayOf(now) = 20224
    /\ last.weekday = <<4>>
    /\ last.value = <<"2", "3", "/", "0", "5", "/", "2", "0", "2", "5">>

\* C23: calculer_date with days = 0, weeks = 0 and a weekday outside 0..6 returns an error
\* string and not a date, without raising
C23_WeekdayError ==
    (WeekdayCall /\ last.weekday[1] \notin 0..6) =>
        /\ last.kind = "return"
        /\ ~IsDateText(last.value, last.format)
        /\ Head(last.value) = "Erreur: weekday ("

\* weekday -1 was refused
C23_Witness ==
    /\ WeekdayCall
    /\ last.weekday = <<-1>>
    /\ last.kind = "return"
    /\ last.value = <<"Erreur: weekday (", "-", "1",
                      ") doit être entre 0 (lundi) et 6 (dimanche).">>


----------------------------------------------------------------------------
(* The key store with several keys *)

RevocableKeys == GeneratedKeys \cup {PrefixedKey, admin_api_key}

NextKeys ==
    \/ \E k \in RevocableKeys : RegisterKey(k, {"chat"}, 1, 1)
    \/ \E k \in RevocableKeys \cup {EmptyKey} : ValidateKey(k, "chat")
    \/ \E k \in RevocableKeys \cup {EmptyKey} : RevokeKey(k)

SpecKeys == InitAuth /\ [][NextKeys]_vars

\* the store after the step is the store before it without the record of k
OnlyRecordRemoved(k) ==
    /\ DOMAIN API_KEYS' = DOMAIN API_KEYS \ {hash_key(k)}
    /\ \A h \in DOMAIN API_KEYS' : API_KEYS'[h] = API_KEYS[h]

\* what C24 says of a revoke_key step
C24_Revoked ==
    last'.op = "revoke_key" =>
        /\ last'.ret = (hash_key(last'.key) \in DOMAIN API_KEYS)
        /\ OnlyRecordRemoved(last'.key)

\* a validate_key step on a key that has no record fails as an unknown key
C24_Unknown ==
    (last'.op = "validate_key" /\ hash_key(last'.key) \notin DOMAIN API_KEYS) =>
        last'.ret = <<FALSE, "Invalid API key", EmptyDict>>

\* C24 as stated: revoke_key removes the key's record and returns true exactly when the
\* record existed; afterwards validate_key on that key fails as an unknown key and a second
\* revoke_key returns false; records of all other keys are untouched
C24_Original == [][C24_Revoked /\ C24_Unknown]_vars

\* C24: revoke_key removes the key's record and returns true exactly when the record
\* existed, and leaves the records of all other keys untouched; as long as the key has no
\* record, revoke_key on it returns false, and validate_key on it fails as an unknown key
\* unless the key is empty or is taken through the development admin-key bypass
C24_RevokeKey ==
    [][/\ C24_Revoked
       /\ (last'.key # EmptyKey /\ ~AdminBypass(environment, last'.key)) => C24_Unknown]_vars

\* a stored key was revoked while another key stayed stored
C24_Witness ==
    /\ last.op = "revoke_key"
    /\ last.ret = TRUE
    /\ hash_key(last.key) \notin DOMAIN API_KEYS
    /\ DOMAIN API_KEYS # {}


----------------------------------------------------------------------------
(* Claims about HTTP monitoring *)

\* the request just handled passed the admin gate of the monitoring endpoint
ToggleHandled == last.op = "toggle_http_monitoring" /\ last.gate = "return"

\* C25: PUT /debug/monitor/http/{id}/{enable} on a known session answers 200 and leaves
\* monitoring in the requested state (the process-wide HTTP interceptor is active after
\* enable=true and no longer active after enable=false); on an unknown session it answers 404
C25_ToggleMonitoring ==
    ToggleHandled =>
        IF last.known
        THEN /\ last.status = 200
             /\ last.enable <=> (http_wrappers > 0)
        ELSE last.status = 404

\* an unknown session was answered 404
C25_Unknown404 == ToggleHandled /\ ~last.known /\ last.status = 404


----------------------------------------------------------------------------
(* Claims about the retry loop and the continuation loop *)

\* the step is an attempt of the retry loop whose invoke returned
AttemptReturns == pm.pc = "retry" /\ pm'.attempts = pm.attempts + 1 /\ pm'.pc # "idle"

\* the outputs of the attempts made so far in this call
NoneRecognised(calls) == \A i \in 1..Len(calls) : ~is_final_answer(calls[i].output)

\* C26: within one process_message call the reasoning loop is attempted at most 3 times and
\* stops at the first attempt whose output is recognised as a final answer; the scratchpad
\* passed to attempt k+1 is the scratchpad passed to attempt k extended with attempt k's
\* steps, never reset or shortened mid-call; if no attempt is recognised, the third attempt's
\* result is used
C26_RetryLoop ==
    [][/\ pm'.attempts <= 3
       /\ pm.pc = "retry" => (pm.attempts < 3 /\ NoneRecognised(pm.calls))
       /\ AttemptReturns =>
             /\ pm'.accumulated_scratchpad_str =
                    pm.accumulated_scratchpad_str \o format_scratchpad_for_llm(pm'.result.steps)
             /\ (pm'.pc = "retry") =
                    (~is_final_answer(pm'.result.output) /\ pm'.attempts < 3)
       /\ pm.pc # "idle" =>
             StartsWith(pm'.accumulated_scratchpad_str, pm.accumulated_scratchpad_str)
       /\ (pm.pc = "after_retry" /\ pm'.pc # "after_retry") =>
             /\ pm'.current_output = pm.calls[pm.attempts].output
             /\ NoneRecognised(SubSeq(pm.calls, 1, pm.attempts - 1))
             /\ NoneRecognised(pm.calls) => pm.attempts = 3]_vars

\* three attempts, each with tool steps, none recognised: the third result is taken up with
\* the scratchpad of all three
C26_Witness ==
    /\ pm.attempts = 3
    /\ pm.pc \in {"continue", "finish"}
    /\ pm.continuation_attempts = 0
    /\ NoneRecognised(pm.calls)
    /\ pm.current_output = pm.calls[3].output
    /\ pm.accumulated_scratchpad_str =
           format_scratchpad_for_llm(<<DaysStep>>) \o format_scratchpad_for_llm(<<MediaStep>>)
               \o format_scratchpad_for_llm(<<PlainDateStep>>)


\* process_message runs on: a started call keeps taking its next step (invoke returns or
\* raises: the executor is capped at 20 iterations)
LoopOutputs == {FinalAnswerObject, PlainText}

NextLoops ==
    \/ \E m \in Messages : PM_Start(m, "none")
    \/ \E o \in LoopOutputs, r \in LLMResults : PM_Attempt(o, <<>>, r)
    \/ \E c \in BOOLEAN, r \in LLMResults : PM_AttemptRaises(c, r)
    \/ PM_AfterRetry
    \/ \E o \in LoopOutputs, r \in LLMResults : PM_Continue(o, <<>>, r)
    \/ \E c \in BOOLEAN, r \in LLMResults : PM_ContinueRaises(c, r)
    \/ PM_Return

SpecLoops == InitAgent /\ [][NextLoops]_vars /\ WF_vars(NextLoops)

\* the counts of one call: retry attempts, continuation calls, invocations
WithinCaps ==
    /\ pm.attempts <= 3
    /\ pm.continuation_attempts <= 2
    /\ Len(pm.calls) = pm.attempts + pm.continuation_attempts

LastCall == pm.calls[Len(pm.calls)]

\* a call once started comes to its end
Terminates == (pm.pc # "idle") ~> (pm.pc = "idle")

\* C27 as stated: every process_message call terminates after at most 3 retry attempts plus
\* at most 2 continuation calls; a continuation call is made only while the termination code
\* captured from the most recent LLM call is "length"
C27_Original ==
    /\ WithinCaps
    /\ pm.pc = "continue" => LastCall.captured = "length"

\* the code the handler holds after the retry loop is that of the latest attempt whose
\* model result carried one
LatestCarriedCodeIsLength ==
    \E i \in 1..pm.attempts :
        /\ pm.calls[i].captured = "length"
        /\ \A j \in (i + 1)..pm.attempts : pm.calls[j].captured = "absent"

\* C27: every process_message call terminates after at most 3 retry attempts plus at most 2
\* continuation calls, whatever the model and tools return; a continuation call is made only
\* while the termination code held by the callback handler is "length": before the first
\* continuation call that is the code of the latest retry attempt whose model result carried
\* one, afterwards it is the code captured from the preceding continuation call, so that
\* continuation stops at the first continuation call whose code is not "length"
C27_Terminates ==
    /\ [](/\ WithinCaps
          /\ pm.pc = "continue" =>
                /\ handler.finish_reason = "length"
                /\ pm.continuation_attempts = 0 => LatestCarriedCodeIsLength
                /\ pm.continuation_attempts > 0 =>
                      (~LastCall.raised /\ LastCall.captured = "length"))
    /\ Terminates

\* three attempts and two continuation calls, every code "length": the call has ended
C27_Witness ==
    /\ pm.pc = "idle"
    /\ pm.attempts = 3
    /\ pm.continuation_attempts = 2
    /\ \A i \in 1..5 : pm.calls[i].captured = "length"
    /\ pm.ret.kind = "return"


----------------------------------------------------------------------------
(* The recogniser of final answers on the outputs an attempt can have *)

\* an object that names a tool and mentions "Final Answer" in another field
OtherActionObject == Str(<<"{", NoteFinalAnswer, ActionTool, ActionInputX, "}">>)

\* an object without an "action" field that mentions "Final Answer"
NoActionObject == Str(<<" ", "{", NoteFinalAnswer, ActionInputX, "}", "\n">>)

\* braces around text that json.loads rejects
BrokenObject == Str(<<"{", "a", ActionFinalAnswer, "}">>)

RecogniserOutputs ==
    {FinalAnswerObject, FinalAnswerDict, OtherActionObject, NoActionObject, BrokenObject,
     TruncatedHead, FinalText, PlainText, ListOutput}

NextRecogniser ==
    \/ \E m \in Messages : PM_Start(m, "none")
    \/ \E o \in RecogniserOutputs : PM_Attempt(o, <<>>, Generation("stop"))
    \/ PM_AttemptRaises(TRUE, Generation("stop"))
    \/ PM_AfterRetry
    \/ PM_Return

SpecRecogniser == InitAgent /\ [][NextRecogniser]_vars

\* the output is a JSON object literal (or an object already decoded)
IsObjectLiteral(output) ==
    output.t = "dict" \/ (output.t = "str" /\ JsonDecodes(output.s))

\* the value of the "action" field of an object literal is "Final Answer"
ActionIsFinalAnswer(output) ==
    \E i \in 1..Len(output.s) :
        /\ output.s[i] = ActionFinalAnswer
        /\ \A j \in (i + 1)..Len(output.s) : output.s[j] \notin {ActionFinalAnswer, ActionTool}

\* C28: an attempt's output is recognised as a final answer exactly when it is a JSON object
\* literal whose "action" field equals "Final Answer", or it is text that is no JSON object
\* literal and contains the substring "Final Answer"; an object literal with any other
\* "action" value is not recognised even if "Final Answer" appears elsewhere inside it, and
\* plain answer text without that substring is not recognised
C28_Recognition ==
    [][(AttemptReturns /\ pm'.attempts < 3) =>
          LET output == pm'.result.output
          IN  /\ (pm'.pc = "after_retry") =
                    \/ IsObjectLiteral(output) /\ ActionIsFinalAnswer(output)
                    \/ /\ output.t = "str"
                       /\ ~IsObjectLiteral(output)
                       /\ \E i \in 1..Len(output.s) : "Final Answer" \in PhrasesIn(output.s[i])
              /\ output \in {OtherActionObject, NoActionObject, PlainText, ListOutput}
                    => pm'.pc = "retry"
              /\ output \in {FinalAnswerObject, FinalAnswerDict, BrokenObject, FinalText,
                             TruncatedHead}
                    => pm'.pc = "after_retry"]_vars

\* an object naming a tool and a plain text were passed over, a final-answer object stopped
\* the loop
C28_Witness ==
    /\ pm.pc = "after_retry"
    /\ pm.attempts = 3
    /\ pm.calls[1].output = OtherActionObject
    /\ pm.calls[2].output = PlainText
    /\ pm.calls[3].output = FinalAnswerObject


----------------------------------------------------------------------------
(* Claims about the daily reset of the request counter *)

\* a validate_key call that reached the rate-limit step
C29_Case == last.op = "validate_key" /\ last.qualifies /\ ~last.bypass

\* C29: when more than 86,400 seconds have elapsed since a key's last_reset, the next
\* validate_key that reaches the rate-limit step resets request_count to 0 and last_reset to
\* now before checking the limit, so a previously rate-limited key with rate_limit >= 1
\* succeeds again and ends with request_count = 1; when exactly 86,400 seconds or fewer have
\* elapsed no reset happens
C29_DailyReset ==
    C29_Case =>
        LET pre     == last.pre
            post    == StoredNow(last.key)
            elapsed == now - pre.last_reset
        IN  IF elapsed > 86400
            THEN /\ post.last_reset = now
                 /\ pre.rate_limit >= 1 => (last.ret[1] = TRUE /\ post.request_count = 1)
                 /\ pre.rate_limit = 0 =>
                       (last.ret[2] = "Rate limit exceeded" /\ post.request_count = 0)
            ELSE /\ post.last_reset = pre.last_reset
                 /\ IF pre.request_count >= pre.rate_limit
                    THEN last.ret[2] = "Rate limit exceeded"
                             /\ post.request_count = pre.request_count
                    ELSE last.ret[1] = TRUE /\ post.request_count = pre.request_count + 1

\* a key that had used up its limit succeeded again a day and a second after its last reset
C29_Witness ==
    /\ C29_Case
    /\ last.pre.rate_limit >= 1
    /\ last.pre.request_count = last.pre.rate_limit
    /\ now - last.pre.last_reset = 86401
    /\ last.ret[1] = TRUE
    /\ StoredNow(last.key).request_count = 1

\* exactly a day after its last reset a key that had used up its limit was refused
C29_NoResetYet ==
    /\ C29_Case
    /\ last.pre.request_count = last.pre.rate_limit
    /\ now - last.pre.last_reset = 86400
    /\ last.ret[2] = "Rate limit exceeded"


----------------------------------------------------------------------------
(* Claims about the clearing of the callback handler *)

\* the step begins a process_message call
CallStarts == pm.pc = "idle" /\ pm' # pm

\* the step is a continuation attempt
ContinuationAttempt == pm'.continuation_attempts = pm.continuation_attempts + 1

\* the call made by the step, as recorded
CallMade == pm'.calls[Len(pm'.calls)]

\* C30 as stated: the captured finish reason and raw last response are cleared at the start
\* of every process_message call and after every continuation attempt
C30_Original ==
    [][/\ CallStarts => handler' = HandlerInit
       /\ ContinuationAttempt => handler' = HandlerInit]_vars

\* C30: the captured finish reason and raw last response are cleared at the start of every
\* process_message call, once memory.clear() has returned (a call in which it raises ends
\* there and clears nothing), and at the start of every continuation attempt, before its
\* model call: after a continuation attempt they hold what that attempt's call captured and
\* nothing of an earlier call
C30_Cleared ==
    [][/\ CallStarts =>
             IF pm'.ret.kind = "raise"
             THEN handler' = handler
             ELSE handler' = HandlerInit
       /\ ContinuationAttempt =>
             /\ handler'.finish_reason =
                    IF CallMade.captured \in {"absent", "no call"} THEN None
                    ELSE CallMade.captured
             /\ handler'.last_response =
                    IF CallMade.captured = "no call" THEN None ELSE "LLMResult"]_vars

\* a continuation attempt whose model result carried no code left no finish reason behind,
\* although "length" had been captured before it
C30_Witness ==
    /\ pm.continuation_attempts = 1
    /\ pm.calls[Len(pm.calls) - 1].finish_reason = "length"
    /\ pm.calls[Len(pm.calls)].captured = "absent"
    /\ handler = [finish_reason |-> None, last_response |-> "LLMResult"]


----------------------------------------------------------------------------
(* Claims about the conversation memory *)

\* the first attempt of a call is about to be made
FirstAttemptDue == pm.pc = "retry" /\ pm.attempts = 0

ReturnedInvokes == {i \in 1..Len(pm.calls) : ~pm.calls[i].raised}

\* C32 as stated: before process_message returns the conversation memory is cleared, so
\* after any call has returned the agent's memory transcript is empty
C32_Original == Finished => memory = <<>>

\* C32: the conversation memory is cleared at the start of process_message and not before
\* it returns: after a call has returned the transcript holds the exchanges of that call's
\* invokes that returned, a human and an AI message each, and nothing of earlier calls; a
\* call in which memory.clear() raises leaves the transcript as it was
C32_ClearedAtStart ==
    /\ [](Finished /\ pm.ret.kind # "raise" =>
             Len(memory) = 2 * Cardinality(ReturnedInvokes))
    /\ [][CallStarts /\ pm'.ret.kind = "raise" => memory' = memory]_vars

\* a call of three attempts and two continuations has returned: ten messages are kept
C32_Witness ==
    /\ Finished
    /\ pm.ret.kind = "return"
    /\ Cardinality(ReturnedInvokes) = 5
    /\ Len(memory) = 10


----------------------------------------------------------------------------
(* Claims about the trace *)

\* Agent.get_thinking: one block of lines per stored step (its number, tool, input and
\* observation); None when the attribute last_intermediate_steps was never assigned, the
\* executor having no attribute intermediate_steps either
get_thinking(lis) ==
    IF lis.has
    THEN [t |-> "str",
          s |-> [i \in 1..Len(lis.steps) |->
                    [etape |-> i, outil |-> lis.steps[i].tool,
                     entree |-> lis.steps[i].tool_input,
                     observation |-> lis.steps[i].observation]]]
    ELSE NoneValue

\* the block renders a step that an invoke of the call just returned has produced
RendersStepOfThisCall(block) ==
    \E j \in 1..Len(pm.calls) : \E k \in 1..Len(pm.calls[j].steps) :
        /\ block.outil = pm.calls[j].steps[k].tool
        /\ block.entree = pm.calls[j].steps[k].tool_input
        /\ block.observation = pm.calls[j].steps[k].observation

\* C33: the trace is overwritten on each process_message call: after any call returns,
\* including one that ended in the error boundary, get_thinking renders only steps produced
\* during that call and never steps left over from an earlier call
C33_TraceOfThisCall ==
    Finished =>
        LET thinking == get_thinking(last_intermediate_steps)
        IN  thinking.t = "str" =>
                \A i \in 1..Len(thinking.s) : RendersStepOfThisCall(thinking.s[i])

\* after a call whose steps were stored, get_thinking renders them
C33_Rendered ==
    /\ Finished
    /\ pm.ret.kind = "return"
    /\ Len(pm.calls) = 1
    /\ pm.calls[1].steps = <<DaysStep>>
    /\ Len(get_thinking(last_intermediate_steps).s) = 1


\* the call just made gave integer offsets, one of them non-zero
OffsetCall ==
    /\ last.op = "calculer_date"
    /\ last.days # NoInt /\ last.weeks # NoInt
    /\ (last.days[1] # 0 \/ last.weeks[1] # 0)

\* C34: whenever days != 0 or weeks != 0, calculer_date returns today + days + 7*weeks and
\* ignores weekday entirely (no error even for an out-of-range weekday); with days = 0,
\* weeks = 0 and weekday absent it returns today
C34_OffsetPriority ==
    /\ OffsetCall =>
           /\ last.kind = "return"
           /\ IsDateText(last.value, last.format)
           /\ ParsedDay(last.value, last.format)
                  = TodayOf(now) + last.days[1] + 7 * last.weeks[1]
    /\ (last.op = "calculer_date" /\ last.days = <<0>> /\ last.weeks = <<0>>
            /\ last.weekday = NoInt) =>
           /\ last.kind = "return"
           /\ IsDateText(last.value, last.format)
           /\ ParsedDay(last.value, last.format) = TodayOf(now)

\* on Friday 2025-05-16, one day and one week ahead with weekday 7 gave the 24th
C34_Witness ==
    /\ OffsetCall
    /\ TodayOf(now) = 20224
    /\ last.days = <<1>> /\ last.weeks = <<1>> /\ last.weekday = <<7>>
    /\ last.value = <<"2", "4", "/", "0", "5", "/", "2", "0", "2", "5">>

\* on the same day the call without arguments gave the 16th
C34_Today ==
    /\ last.op = "calculer_date"
    /\ TodayOf(now) = 20224
    /\ last.days = <<0>> /\ last.weeks = <<0>> /\ last.weekday = NoInt
    /\ last.value = <<"1", "6", "/", "0", "5", "/", "2", "0", "2", "5">>


----------------------------------------------------------------------------
(* The extraction tool *)

\* a test that never finds the content stored
NeverProcessed(metadata) == FALSE

\* metadata.processed and metadata.processed_content is not None
AlreadyProcessed(metadata) == metadata.processed /\ metadata.processed_content # NoneValue

\* what the tool answers: a message about a media item, followed by a content
ToolAnswer(message, media_id, content) ==
    [message |-> message, media_id |-> media_id, content |-> content]

NotFoundMessage == "Média avec ID '{media_id}' non trouvé."

AlreadyMessage == "[Contenu déjà traité pour {media_id}]\n"

NoAudioContent == <<"[Impossible d'extraire l'audio de la vidéo pour transcription.]">>

\* the extraction engines a call runs on an item not yet processed.  "engine" is what they
\* do: the text they yield, and whether extract_video_audio yields an audio file.  Every
\* engine catches its own exceptions and answers with a text.
EnginesRun(metadata, engine) ==
    IF metadata.media_type = "image" THEN <<"extract_text_from_image">>
    ELSE IF metadata.media_type = "document"
    THEN IF metadata.content_type = "application/pdf" THEN <<"extract_text_from_pdf">>
         ELSE <<>>
    ELSE IF metadata.media_type = "audio" THEN <<"extract_audio_transcription">>
    ELSE IF engine.audio_path THEN <<"extract_video_audio", "extract_audio_transcription">>
    ELSE <<"extract_video_audio">>

\* the content these engines yield
ContentExtracted(metadata, engine) ==
    IF metadata.media_type = "document" /\ metadata.content_type # "application/pdf"
    THEN <<"[Contenu textuel du fichier]\n\n">> \o engine.text
    ELSE IF metadata.media_type = "video" /\ ~engine.audio_path THEN NoAudioContent
    ELSE engine.text

\* extract_media_content(media_id)
extract_media_content(registry, media_id, engine) ==
    LET metadata == get_media_metadata(registry, media_id)
        content == ContentExtracted(metadata, engine)
    IN  IF metadata = NoMetadata
        THEN [value |-> ToolAnswer(NotFoundMessage, media_id, <<>>), engines |-> <<>>,
              registry |-> registry]
        ELSE IF AlreadyProcessed(metadata)
        THEN [value |-> ToolAnswer(AlreadyMessage, media_id, metadata.processed_content.s),
              engines |-> <<>>, registry |-> registry]
        ELSE [value |-> ToolAnswer("", media_id, content),
              engines |-> EnginesRun(metadata, engine),
              registry |-> Put(registry, media_id,
                               [metadata EXCEPT !.processed = TRUE,
                                                !.processed_content = Str(content)])]

\* the tool is called
ExtractMediaContent(media_id, engine) ==
    LET e == extract_media_content(media_registry, media_id, engine)
    IN  /\ media_registry' = e.registry
        /\ last' = [ op |-> "extract_media_content", media_id |-> media_id,
                     value |-> e.value, engines |-> e.engines ]
        /\ UNCHANGED <<media_cache, nMedia, API_KEYS>>
        /\ MediaFrame

PdfResponse == HttpResponse("response", 200, <<"application/pdf">>, 3)

VideoResponse == HttpResponse("response", 200, <<"video/mp4">>, 3)

\* what the engines do in the model
EngineOutcomes ==
    { [text |-> <<"[Texte extrait]\n\n", "abc">>, audio_path |-> TRUE],
      [text |-> <<"[Aucun texte détecté]">>, audio_path |-> FALSE] }

NextExtract ==
    \/ Tick(HourSeconds)
    \/ \E r \in {OkResponse, PdfResponse, VideoResponse} : FetchMedia(ValidUrl, r, "ok")
    \/ \E h \in {1} : CleanupOldMedia(h)
    \/ \E m \in MediaIds, e \in EngineOutcomes : ExtractMediaContent(m, e)

SpecExtract == InitMedia /\ [][NextExtract]_vars

----------------------------------------------------------------------------
(* Claims about the extraction tool *)

\* the step is a call of the tool for the media id
ExtractCallOn(m) ==
    /\ last'.op = "extract_media_content"
    /\ last'.media_id = m
    /\ media_cache' = media_cache /\ now' = now

\* the record of the media id is marked processed
MarkedProcessed(m) == m \in DOMAIN media_registry /\ media_registry[m].processed

\* the step keeps the record as it is
RecordKept(m) == m \in DOMAIN media_registry' /\ media_registry'[m] = media_registry[m]

\* a call of the tool for the media id answers with the content stored, and runs no engine
AnswersStored(m) ==
    ExtractCallOn(m) =>
        /\ last'.value = ToolAnswer(AlreadyMessage, m, media_registry[m].processed_content.s)
        /\ last'.engines = <<>>

\* a call of the tool for an unknown media id answers not found and changes no record
UnknownNotFound(m) ==
    (ExtractCallOn(m) /\ m \notin DOMAIN media_registry) =>
        /\ last'.value = ToolAnswer(NotFoundMessage, m, <<>>)
        /\ last'.engines = <<>>
        /\ media_registry' = media_registry

\* C35 as stated: once a record is marked processed, every later call for its media id
\* returns the stored content without running an engine, and the record stays as it is
C35_Original ==
    [][\A m \in MediaIds :
          /\ MarkedProcessed(m) => (RecordKept(m) /\ AnswersStored(m))
          /\ UnknownNotFound(m)]_vars

\* C35: extract_media_content extracts at most once per media item: once a call has marked
\* the record processed, every later call for that media id made while the record is in
\* the registry returns the stored processed_content (prefixed) without running an engine,
\* and the record keeps processed and processed_content until cleanup_old_media removes it;
\* a call on an unknown media id, one whose record was removed included, returns a
\* not-found message and changes no record
C35_ExtractedOnce ==
    [][\A m \in MediaIds :
          /\ MarkedProcessed(m) =>
                /\ RecordKept(m) \/ (m \notin DOMAIN media_registry'
                                        /\ last'.op = "cleanup_old_media")
                /\ AnswersStored(m)
          /\ UnknownNotFound(m)]_vars

\* a second call on a processed item was answered with the stored content
C35_Witness ==
    /\ last.op = "extract_media_content"
    /\ MarkedProcessed(last.media_id)
    /\ last.value.message = AlreadyMessage
    /\ last.value.content = media_registry[last.media_id].processed_content.s
    /\ last.engines = <<>>

\* a call on a media id that is not in the registry any more
C35_Removed ==
    /\ last.op = "extract_media_content"
    /\ last.media_id = MediaIdOf(1)
    /\ nMedia >= 1
    /\ last.value.message = NotFoundMessage


----------------------------------------------------------------------------
(* Claims about the request counter *)

\* C36: for every stored API key record registered with rate_limit >= 0,
\* 0 <= request_count <= rate_limit holds after any sequence of register_key, validate_key,
\* revoke_key and clock advances
C36_CountWithinLimit ==
    \A h \in DOMAIN API_KEYS :
        API_KEYS[h].rate_limit >= 0 =>
            /\ 0 <= API_KEYS[h].request_count
            /\ API_KEYS[h].request_count <= API_KEYS[h].rate_limit

\* a validation has just been refused on a key whose counter had reached its limit after a
\* reset
C36_Witness ==
    /\ last.op = "validate_key"
    /\ last.qualifies
    /\ last.ret[2] = "Rate limit exceeded"
    /\ \E h \in DOMAIN API_KEYS :
          /\ API_KEYS[h].rate_limit = MaxRateLimit
          /\ API_KEYS[h].request_count = API_KEYS[h].rate_limit
          /\ API_KEYS[h].last_reset > API_KEYS[h].created_at


----------------------------------------------------------------------------
(* validate_key in several threads *)

\* get_api_key is a plain function, so the server runs it, and validate_key inside it, in
\* a thread of its pool; validate_key takes no lock, and threads may be switched between
\* any two of its statements and between the read and the write of "+= 1".  A worker's
\* call is therefore a sequence of steps on the shared record.

\* what the steps of the workers leave alone
ThreadFrame ==
    /\ UNCHANGED <<now, ticks, environment, debug_mode, api_key_prefix, nCalls, last>>
    /\ UNCHANGED agentVars
    /\ UNCHANGED <<factoryVars, managerVars, mediaVars, toolVars, http_wrappers>>

\* the worker's call has returned
CallReturns(w, ret, error) ==
    validations' = [validations EXCEPT ![w] = [@ EXCEPT !.pc = "done", !.ret = ret,
                                                         !.error = error]]

\* the worker moves on in its call
Goes(w, pc) == validations' = [validations EXCEPT ![w] = [@ EXCEPT !.pc = pc]]

\* the record the worker's call works on
KeyData(w) == API_KEYS[hash_key(validations[w].key)]

\* lines 73-113: the call starts; the key is looked up, its expiry and scope are checked
VK_Enter(w, k, scope) ==
    /\ validations[w].pc = "idle"
    /\ IF k = EmptyKey THEN CallReturns(w, "False", "No API key provided")
       ELSE IF AdminBypass(environment, k) THEN CallReturns(w, "True", None)
       ELSE IF hash_key(k) \notin DOMAIN API_KEYS THEN CallReturns(w, "False", "Invalid API key")
       ELSE IF IsExpired(API_KEYS[hash_key(k)], now)
       THEN CallReturns(w, "False", "API key expired")
       ELSE IF scope \notin API_KEYS[hash_key(k)].scopes
       THEN CallReturns(w, "False", ScopeError(scope))
       ELSE validations' = [validations EXCEPT ![w] = [@ EXCEPT !.pc = "reset", !.key = k]]
    /\ UNCHANGED API_KEYS
    /\ ThreadFrame

\* lines 116-122: the counter is reset if a day has passed
VK_Reset(w) ==
    /\ validations[w].pc = "reset"
    /\ API_KEYS' = Put(API_KEYS, hash_key(validations[w].key), AfterReset(KeyData(w), now))
    /\ Goes(w, "check")
    /\ ThreadFrame

\* lines 125-127: the rate limit is checked
VK_Check(w) ==
    /\ validations[w].pc = "check"
    /\ IF RateLimitExceeded(KeyData(w))
       THEN CallReturns(w, "False", "Rate limit exceeded")
       ELSE Goes(w, "load")
    /\ UNCHANGED API_KEYS
    /\ ThreadFrame

\* line 130, first half: request_count is read
VK_Load(w) ==
    /\ validations[w].pc = "load"
    /\ validations' = [validations EXCEPT ![w] = [@ EXCEPT !.pc = "store",
                                              !.loaded = KeyData(w).request_count]]
    /\ UNCHANGED API_KEYS
    /\ ThreadFrame

\* line 130, second half, and line 132: the value read, plus one, is stored; the call
\* returns True
VK_Store(w) ==
    /\ validations[w].pc = "store"
    /\ API_KEYS' = Put(API_KEYS, hash_key(validations[w].key),
                       CountRequest([KeyData(w) EXCEPT !.request_count = validations[w].loaded]))
    /\ CallReturns(w, "True", None)
    /\ ThreadFrame

\* a production server on which one key has been registered
InitConcurrent ==
    /\ now = 0
    /\ ticks = 0
    /\ environment = "production"
    /\ debug_mode = FALSE
    /\ api_key_prefix = <<"sk-">>
    /\ \E k \in GeneratedKeys, rl \in 1..MaxRateLimit :
          API_KEYS = Put(<<>>, hash_key(k), key_data_new(k, {"chat"}, 1, rl, 0))
    /\ nCalls = [h \in {} |-> 0]
    /\ last = [op |-> "init"]
    /\ AgentConstructed
    /\ ServicesStarted

NextConcurrent ==
    \/ \E w \in Workers, k \in GeneratedKeys \cup {EmptyKey}, scope \in ScopeNames :
          VK_Enter(w, k, scope)
    \/ \E w \in Workers : VK_Reset(w)
    \/ \E w \in Workers : VK_Check(w)
    \/ \E w \in Workers : VK_Load(w)
    \/ \E w \in Workers : VK_Store(w)

SpecConcurrent == InitConcurrent /\ [][NextConcurrent]_vars

\* the validations of the key that have succeeded
Succeeded(h) ==
    {w \in Workers : /\ validations[w].pc = "done" /\ validations[w].ret = "True"
                     /\ hash_key(validations[w].key) = h}

\* C37: when several requests validate the same key concurrently, the number of
\* validations that succeed between two counter resets never exceeds the key's rate_limit
\* (no reset is due in these runs: the key was registered at the present time)
C37_WithinLimit ==
    \A h \in DOMAIN API_KEYS : Cardinality(Succeeded(h)) <= API_KEYS[h].rate_limit

\* every worker's validation succeeded on a key of rate limit 1
C37_AllSucceeded ==
    \E h \in DOMAIN API_KEYS :
        /\ API_KEYS[h].rate_limit = 1
        /\ Succeeded(h) = Workers


----------------------------------------------------------------------------
(* Claims about the three maps of the factory *)

\* C38: after any sequence of get_agent and update_session_config calls, including
\* get_agent calls in which Agent construction fails, the three factory maps (agent
\* instances, session configs, session metadata) contain exactly the same session ids
C38_SameSessionIds ==
    /\ DOMAIN AGENT_INSTANCES = DOMAIN SESSION_CONFIGS
    /\ DOMAIN AGENT_INSTANCES = DOMAIN SESSION_META

\* a configuration is stored for a session that has no agent and no metadata
C38_OrphanConfig ==
    \E s \in DOMAIN SESSION_CONFIGS : s \notin DOMAIN AGENT_INSTANCES \cup DOMAIN SESSION_META


----------------------------------------------------------------------------
(* Claims about shared cache files *)

\* the step is a call of cleanup_old_media
CleanupStep == last'.op = "cleanup_old_media" /\ now' = now /\ nMedia' = nMedia

\* C39: a cache file referenced by a media item that remains in the registry is never
\* deleted by cleanup_old_media removing a different, older item, for any sequence of
\* fetches (including two fetches of the same URL) followed by a cleanup
C39_FileOfRemainingKept ==
    [][CleanupStep =>
          \A m \in DOMAIN media_registry' :
              media_registry[m].local_path \in DOMAIN media_cache =>
                  media_registry'[m].local_path \in DOMAIN media_cache']_vars

\* an item is in the registry while the cache file it refers to is gone, after a cleanup
\* that removed an older item
C39_FileLost ==
    /\ last.op = "cleanup_old_media"
    /\ last.count = 1
    /\ \E m \in DOMAIN media_registry : media_registry[m].local_path \notin DOMAIN media_cache


----------------------------------------------------------------------------
(* Claims about a continuation call that raises *)

\* the step is a continuation call that raises
ContinuationRaises ==
    /\ pm.pc = "continue"
    /\ Len(pm'.calls) = Len(pm.calls) + 1
    /\ pm'.calls[Len(pm'.calls)].raised

\* the text the error boundary returns
IsErrorString(ret) ==
    /\ ret.kind = "return"
    /\ ret.value.t = "str"
    /\ Len(ret.value.s) > 0
    /\ ret.value.s[1] = "Une erreur s'est produite: "

\* the continuation calls of the call that raised
RaisedContinuations ==
    {i \in 1..Len(pm.calls) : pm.calls[i].phase = "continuation" /\ pm.calls[i].raised}

\* C40: if a continuation call raises, process_message makes no further continuation call
\* and returns the output accumulated before that call (post-processed as usual) rather
\* than an error string
C40_ContinuationRaises ==
    /\ [][ContinuationRaises =>
             /\ pm'.pc = "finish"
             /\ pm'.current_output = pm.current_output]_vars
    /\ [](Finished =>
             \A i \in RaisedContinuations :
                 /\ i = Len(pm.calls)
                 /\ pm.ret = Respond(pm.current_output, last_intermediate_steps)
                 /\ ~IsErrorString(pm.ret))

\* the second continuation call raised, and the call returned the two segments gathered
\* before it
C40_Witness ==
    /\ Finished
    /\ Len(pm.calls) = 3
    /\ RaisedContinuations = {3}
    /\ pm.calls[1].output = TruncatedHead
    /\ pm.calls[2].output = TruncatedTail
    /\ pm.ret = Respond(AppendSegment(TruncatedHead, TruncatedTail).value,
                        last_intermediate_steps)
    /\ pm.ret.kind = "return"

====
